---------------------------- MODULE Spec2Model ----------------------------
(***************************************************************************)
(* LogVision (LogTrawler): log ingestion, carried-timestamp line parsing,  *)
(* include/exclude/regex filtering and filter statistics.                  *)
(*                                                                         *)
(* Text is modelled as a sequence of tokens.  A token is either one        *)
(* character or one timestamp-shaped substring (the unit the timestamp     *)
(* regular expressions of parseLogLine capture).  A timestamp token        *)
(* carries its textual format and the instant it denotes; instant 0 is a   *)
(* text of the right shape that is no calendar date ("2024-13-45 ...").    *)
(*                                                                         *)
(* The line-count thresholds of the entry-processing effect (10000, 2000,  *)
(* 20000, 15000) are scaled down to 3, 1, 3, 2 keeping their order.        *)
(***************************************************************************)
EXTENDS Integers, Sequences, FiniteSets, TLC

VARIABLES
    lastValidTimestamp,  \* utils: module-level carried timestamp
    files,               \* Home state: sequence of LogFile records
    activeFileId,        \* Home state: id of the active file, 0 = null
    processedEntries,    \* Home state: entry sequence of the active file
    visibleEntries,      \* Home state: entries passing the filters
    useWebWorker,        \* environment: window.Worker !== undefined
    runs,                \* background batch closures of effect executions
    loads,               \* processFiles invocations whose read is pending
    filterStats,         \* ActiveFilters: the match count shown per filter
    loadingFiles,        \* Home state: progress per file id being read, and
                         \* the pending timeouts that remove the indicators
    storedFiles,         \* environment: the records of the IndexedDB store
                         \* (read by handleRecentFileSelect; the saves of the
                         \* handlers are not modelled)
    chart                \* TimeSeriesChart state: selectedRange and the
                         \* buckets of the last processed frame

vars == <<lastValidTimestamp, files, activeFileId, processedEntries,
          visibleEntries, useWebWorker, runs, loads, filterStats, storedFiles, chart,
          loadingFiles>>

-----------------------------------------------------------------------------
(* Bounds of the model.                                                    *)

MaxLines == 5
MaxTime == 2
MaxRuns == 2
MaxFiles == 2
MaxLoads == 1
MaxFilters == 2

(* Thresholds of the entry-processing effect, scaled.                      *)
LargeFileLines == 3
InitialBatchSize == 1
WorkerBatchSize == 3
TimerBatchSize == 2

-----------------------------------------------------------------------------
(* Text.                                                                   *)

Ch(c) == [fmt |-> "chr", t |-> 0, c |-> c]
Stamp(fmt, t) == [fmt |-> fmt, t |-> t, c |-> ""]
Str(s) == [i \in 1..Len(s) |-> Ch(s[i])]

\* the "-" placeholder timestamp
Sentinel == Stamp("none", 0)

StampFormats == {"millis", "std", "apache"}

IsStamp(tok) == tok.fmt \in StampFormats
IsChar(tok, c) == tok.fmt = "chr" /\ tok.c = c
IsSpace(tok) == tok.fmt = "chr" /\ tok.c \in {" ", "\t"}

UpperCase == <<"A", "B", "C", "D", "E", "F", "G", "H", "I", "J", "K", "L", "M",
               "N", "O", "P", "Q", "R", "S", "T", "U", "V", "W", "X", "Y", "Z">>
LowerCase == <<"a", "b", "c", "d", "e", "f", "g", "h", "i", "j", "k", "l", "m",
               "n", "o", "p", "q", "r", "s", "t", "u", "v", "w", "x", "y", "z">>

IsUpper(tok) == tok.fmt = "chr" /\ \E i \in 1..26 : UpperCase[i] = tok.c

toLowerChar(c) ==
    IF \E i \in 1..26 : UpperCase[i] = c
    THEN LowerCase[CHOOSE i \in 1..26 : UpperCase[i] = c]
    ELSE c

toUpperChar(c) ==
    IF \E i \in 1..26 : LowerCase[i] = c
    THEN UpperCase[CHOOSE i \in 1..26 : LowerCase[i] = c]
    ELSE c

toLowerCase(s) == [i \in 1..Len(s) |-> [s[i] EXCEPT !.c = toLowerChar(s[i].c)]]
toUpperCase(s) == [i \in 1..Len(s) |-> [s[i] EXCEPT !.c = toUpperChar(s[i].c)]]

\* String.prototype.trim() leaves nothing
IsBlank(line) == \A i \in 1..Len(line) : IsSpace(line[i])

\* String.prototype.includes
includes(s, sub) ==
    \E k \in 0..(Len(s) - Len(sub)) : \A i \in 1..Len(sub) : s[k + i] = sub[i]

startsWith(s, sub) ==
    Len(sub) <= Len(s) /\ \A i \in 1..Len(sub) : s[i] = sub[i]

-----------------------------------------------------------------------------
(* parseLogLine: the ladder of timestamp matchers and the carried value.   *)

\* /^(dd-MMM-yyyy HH:mm:ss.SSS)\s+(.+)/
timestampWithMillisMatch(line) ==
    /\ Len(line) >= 3
    /\ line[1].fmt = "millis"
    /\ IsSpace(line[2])

\* /^(yyyy-MM-dd HH:mm:ss)\s+([A-Z]+)\s+\[(.+?)\]\s+(.+)/
standardLogMatch(line) ==
    /\ Len(line) >= 9
    /\ line[1].fmt = "std"
    /\ IsSpace(line[2])
    /\ \E a \in 2..Len(line) : \E b \in (a + 1)..Len(line) :
         /\ \A i \in 2..a : IsSpace(line[i])
         /\ \A i \in (a + 1)..b : IsUpper(line[i])
         /\ \E c \in (b + 1)..Len(line) :
              /\ \A i \in (b + 1)..c : IsSpace(line[i])
              /\ c + 1 <= Len(line) /\ IsChar(line[c + 1], "[")
              /\ \E d \in (c + 3)..Len(line) :
                   /\ IsChar(line[d], "]")
                   /\ \E e \in (d + 1)..(Len(line) - 1) :
                        \A i \in (d + 1)..e : IsSpace(line[i])

\* /\[(dd/MMM/yyyy:HH:mm:ss)\s*]/i : positions of the capture
ApachePositions(line) ==
    {i \in 2..Len(line) :
        /\ line[i].fmt = "apache"
        /\ IsChar(line[i - 1], "[")
        /\ \E j \in (i + 1)..Len(line) :
             /\ IsChar(line[j], "]")
             /\ \A k \in (i + 1)..(j - 1) : IsSpace(line[k])}

\* timestampRegex: every timestamp-shaped substring matches one alternative
GenericPositions(line) == {i \in 1..Len(line) : IsStamp(line[i])}

Min(S) == CHOOSE x \in S : \A y \in S : x <= y
Max(S) == CHOOSE x \in S : \A y \in S : x >= y

Parsed(ts, line) == [timestamp |-> ts, message |-> line, last |-> ts]

\* a variant in which a blank line resets the carried timestamp (the fault
\* C2_CarryForwardWithinRun must detect)
parseLogLineBlankResets(line, last) ==
    IF IsBlank(line)
    THEN [timestamp |-> Sentinel, message |-> line, last |-> Sentinel]
    ELSE IF timestampWithMillisMatch(line) THEN Parsed(line[1], line)
    ELSE IF standardLogMatch(line) THEN Parsed(line[1], line)
    ELSE IF ApachePositions(line) # {}
         THEN Parsed(line[Min(ApachePositions(line))], line)
    ELSE IF GenericPositions(line) # {}
         THEN Parsed(line[Min(GenericPositions(line))], line)
    ELSE [timestamp |-> last, message |-> line, last |-> last]

\* parseLogLine(line) with lastValidTimestamp = last; .last is its new value
parseLogLine(line, last) ==
    IF IsBlank(line)
    THEN [timestamp |-> last, message |-> line, last |-> last]
    ELSE IF timestampWithMillisMatch(line) THEN Parsed(line[1], line)
    ELSE IF standardLogMatch(line) THEN Parsed(line[1], line)
    ELSE IF ApachePositions(line) # {}
         THEN Parsed(line[Min(ApachePositions(line))], line)
    ELSE IF GenericPositions(line) # {}
         THEN Parsed(line[Min(GenericPositions(line))], line)
    ELSE [timestamp |-> last, message |-> line, last |-> last]

\* parseLogLine(undefined)
parseLogLineUndefined ==
    [timestamp |-> Sentinel, message |-> <<>>, last |-> Sentinel]

\* the reset idiom: parseLogLine(undefined); parseLogLine("-")
ResetTimestamp == parseLogLine(Str(<<"-">>), parseLogLineUndefined.last).last

\* parseTimestamp: the instant, 0 = undefined
parseTimestamp(ts) == IF IsStamp(ts) THEN ts.t ELSE 0

\* lines.slice(from, to) (0-based, end exclusive)
Slice(s, from, to) ==
    [i \in 1..((IF to < Len(s) THEN to ELSE Len(s)) - from) |-> s[from + i]]

\* lines.map((line, i) => ({lineNumber: startIndex + i + 1, ...parseLogLine(line)}))
RECURSIVE ParseBatch(_, _, _)
ParseBatch(lines, startIndex, last) ==
    IF lines = <<>>
    THEN [entries |-> <<>>, last |-> last]
    ELSE LET p == parseLogLine(Head(lines), last)
             rest == ParseBatch(Tail(lines), startIndex + 1, p.last)
         IN [entries |-> <<[lineNumber |-> startIndex + 1,
                           timestamp |-> p.timestamp,
                           message |-> p.message]>> \o rest.entries,
             last |-> rest.last]

-----------------------------------------------------------------------------
(* Filters: per-filter matching, visibility, match counts.                 *)

\* new RegExp(term, "i") throws: an unterminated or unmatched group.
\* Patterns are over literal characters, "." and the parentheses.
RECURSIVE ParenDepthOk(_, _)
ParenDepthOk(term, depth) ==
    IF term = <<>> THEN depth = 0
    ELSE IF IsChar(Head(term), "(") THEN ParenDepthOk(Tail(term), depth + 1)
    ELSE IF IsChar(Head(term), ")")
         THEN depth > 0 /\ ParenDepthOk(Tail(term), depth - 1)
    ELSE ParenDepthOk(Tail(term), depth)

RegExpCompiles(term) == ParenDepthOk(term, 0)

\* the pattern with its (non-capturing in effect) group marks removed
Ungrouped(term) ==
    SelectSeq(term, LAMBDA tok : ~IsChar(tok, "(") /\ ~IsChar(tok, ")"))

\* regex.test(message) for a compiled pattern, flag "i", unanchored
RegExpTest(term, message) ==
    LET pat == toLowerCase(Ungrouped(term))
        msg == toLowerCase(message)
    IN \E k \in 0..(Len(msg) - Len(pat)) :
          \A i \in 1..Len(pat) : IsChar(pat[i], ".") \/ msg[k + i] = pat[i]

\* a variant in which a pattern that does not compile matches every message
\* (the fault C7_InvalidRegexNeverMatches must detect)
RegexMatchesOnFailure(term, message) ==
    IF RegExpCompiles(term) THEN RegExpTest(term, message) ELSE TRUE

\* try { new RegExp(term, "i").test(message) } catch { false }
RegexMatches(term, message) ==
    IF RegExpCompiles(term) THEN RegExpTest(term, message) ELSE FALSE

\* message.toLowerCase().includes(term.toLowerCase())
PlainMatches(term, message) == includes(toLowerCase(message), toLowerCase(term))

\* the per-filter test of the Home filter effect
FilterMatches(filter, message) ==
    IF filter.isRegex THEN RegexMatches(filter.term, message)
    ELSE PlainMatches(filter.term, message)

NoTimeRange == [startDate |-> 0, endDate |-> 0]

\* a variant that parses the entry's message again, reading the carried
\* timestamp (the fault C8_VisibilityDeterministic must detect)
TimeRangePassesReparsed(entry, timeRange) ==
    IF timeRange.startDate # 0 \/ timeRange.endDate # 0
    THEN LET entryDate ==
                 parseTimestamp(
                     parseLogLine(entry.message, lastValidTimestamp).timestamp)
         IN IF entryDate # 0
            THEN /\ ~(timeRange.startDate # 0 /\ entryDate < timeRange.startDate)
                 /\ ~(timeRange.endDate # 0 /\ entryDate > timeRange.endDate)
            ELSE TRUE
    ELSE TRUE

\* a variant whose bounds are exclusive
TimeRangePassesExclusive(entry, timeRange) ==
    IF timeRange.startDate # 0 \/ timeRange.endDate # 0
    THEN LET entryDate == parseTimestamp(entry.timestamp)
         IN IF entryDate # 0
            THEN /\ ~(timeRange.startDate # 0 /\ entryDate <= timeRange.startDate)
                 /\ ~(timeRange.endDate # 0 /\ entryDate >= timeRange.endDate)
            ELSE TRUE
    ELSE TRUE

\* the time-range part of the filter callback: FALSE = "return false"
TimeRangePasses(entry, timeRange) ==
    IF timeRange.startDate # 0 \/ timeRange.endDate # 0
    THEN LET entryDate == parseTimestamp(entry.timestamp)
         IN IF entryDate # 0
            THEN /\ ~(timeRange.startDate # 0 /\ entryDate < timeRange.startDate)
                 /\ ~(timeRange.endDate # 0 /\ entryDate > timeRange.endDate)
            ELSE TRUE
    ELSE TRUE

excludeFilters(file) == SelectSeq(file.filters, LAMBDA f : f.type = "exclude")
includeFilters(file) == SelectSeq(file.filters, LAMBDA f : f.type = "include")

\* a variant in which a matching include filter wins over the exclude filters
\* (the fault C5_ExcludePrecedence must detect)
TextFiltersPassIncludeFirst(entry, file) ==
    LET ex == excludeFilters(file)
        inc == includeFilters(file)
    IN IF Len(inc) > 0 /\ \E i \in 1..Len(inc) : FilterMatches(inc[i], entry.message)
       THEN TRUE
       ELSE IF Len(ex) > 0 /\ \E i \in 1..Len(ex) : FilterMatches(ex[i], entry.message)
       THEN FALSE
       ELSE Len(inc) = 0

\* a variant with the combinators exchanged (the fault C6_VisibilityRule must
\* detect)
TextFiltersPassSwapped(entry, file) ==
    LET ex == excludeFilters(file)
        inc == includeFilters(file)
    IN IF Len(ex) > 0 /\ \E i \in 1..Len(ex) : FilterMatches(ex[i], entry.message)
       THEN FALSE
       ELSE IF Len(inc) > 0
            THEN IF file.filterLogic = "AND"
                 THEN \E i \in 1..Len(inc) : FilterMatches(inc[i], entry.message)
                 ELSE \A i \in 1..Len(inc) : FilterMatches(inc[i], entry.message)
            ELSE TRUE

\* the text-filter part of the filter callback
TextFiltersPass(entry, file) ==
    LET ex == excludeFilters(file)
        inc == includeFilters(file)
        shouldExclude ==
            \E i \in 1..Len(ex) : FilterMatches(ex[i], entry.message)
    IN IF Len(ex) > 0 /\ shouldExclude THEN FALSE
       ELSE IF Len(inc) > 0
            THEN IF file.filterLogic = "AND"
                 THEN \A i \in 1..Len(inc) : FilterMatches(inc[i], entry.message)
                 ELSE \E i \in 1..Len(inc) : FilterMatches(inc[i], entry.message)
            ELSE TRUE

\* the callback of processedEntries.filter(...)
IsVisible(entry, file) ==
    IF ~TimeRangePasses(entry, file.timeRange) THEN FALSE
    ELSE TextFiltersPass(entry, file)

\* the Home filter effect; af is <<>> or <<activeFile>>
FilterEffect(entries, af) ==
    IF Len(entries) = 0 \/ af = <<>> THEN <<>>
    ELSE SelectSeq(entries, LAMBDA e : IsVisible(e, af[1]))

LevelTerms ==
    {Str(<<"T","R","A","C","E">>), Str(<<"D","E","B","U","G">>),
     Str(<<"I","N","F","O">>), Str(<<"N","O","T","I","C","E">>),
     Str(<<"W","A","R","N">>), Str(<<"W","A","R","N","I","N","G">>),
     Str(<<"E","R","R","O","R">>), Str(<<"S","E","V","E","R","E">>),
     Str(<<"C","R","I","T","I","C","A","L">>), Str(<<"F","A","T","A","L">>),
     Str(<<"A","L","E","R","T">>), Str(<<"E","M","E","R","G">>),
     Str(<<"E","M","E","R","G","E","N","C","Y">>), Str(<<"O","T","H","E","R">>)}

\* an array element that is undefined (content[lineNumber - 1] out of range)
Undefined == <<Stamp("undefined", 0)>>

\* the predicate of entries.filter(...) in getFilterStats, on the parsed message
StatsMatches(filter, message) ==
    IF ~filter.isRegex /\ toUpperCase(filter.term) \in LevelTerms
    THEN LET upperMessage == toUpperCase(message)
             upperTerm == toUpperCase(filter.term)
         IN \/ includes(upperMessage, Str(<<"[">>) \o upperTerm \o Str(<<"]">>))
            \/ includes(upperMessage, Str(<<" ">>) \o upperTerm \o Str(<<" ">>))
            \/ startsWith(upperMessage, upperTerm \o Str(<<" ">>))
    ELSE IF filter.isRegex THEN RegexMatches(filter.term, message)
    ELSE PlainMatches(filter.term, message)

\* getFilterStats(filter): parseLogLine(entry) on every entry, then the count
RECURSIVE CountMatches(_, _, _)
CountMatches(filter, entries, last) ==
    IF entries = <<>> THEN [count |-> 0, last |-> last]
    ELSE LET p == IF Head(entries) = Undefined THEN parseLogLineUndefined
                  ELSE parseLogLine(Head(entries), last)
             rest == CountMatches(filter, Tail(entries), p.last)
         IN [count |-> rest.count + (IF StatsMatches(filter, p.message) THEN 1 ELSE 0),
             last |-> rest.last]

getFilterStats(filter, entries, last) == CountMatches(filter, entries, last)

\* the entries prop Home passes to ActiveFilters
StatsEntries(file, visible) ==
    IF file.timeRange.startDate # 0 \/ file.timeRange.endDate # 0
    THEN [i \in 1..Len(visible) |->
            IF visible[i].lineNumber <= Len(file.content)
            THEN file.content[visible[i].lineNumber] ELSE Undefined]
    ELSE file.content

\* one render of ActiveFilters: filters.map(getFilterStats)
RECURSIVE StatsOver(_, _, _)
StatsOver(filters, entries, last) ==
    IF filters = <<>> THEN [counts |-> <<>>, last |-> last]
    ELSE LET one == getFilterStats(Head(filters), entries, last)
             rest == StatsOver(Tail(filters), entries, one.last)
         IN [counts |-> <<one.count>> \o rest.counts, last |-> rest.last]

RenderActiveFilters(af, visible, last) ==
    IF af = <<>> THEN [counts |-> <<>>, last |-> last]
    ELSE StatsOver(af[1].filters, StatsEntries(af[1], visible), last)

-----------------------------------------------------------------------------
(* processFiles: FileTimeRange estimation (after the read).                *)

\* Math.min(1000, lines.length), the 1000 scaled
MaxLinesToCheck == 2

Truthy(line) == line # <<>> /\ ~IsBlank(line)

\* for (i = from; i < to; i++) { skip blank; parse; if (date) break }, 0-based
RECURSIVE ScanForward(_, _, _, _)
ScanForward(lines, i, to, last) ==
    IF i >= to THEN [date |-> 0, last |-> last]
    ELSE IF ~Truthy(lines[i + 1]) THEN ScanForward(lines, i + 1, to, last)
    ELSE LET parsed == parseLogLine(lines[i + 1], last)
             date == parseTimestamp(parsed.timestamp)
         IN IF date # 0 THEN [date |-> date, last |-> parsed.last]
            ELSE ScanForward(lines, i + 1, to, parsed.last)

\* for (i = from; i >= downTo; i--) { skip blank; parse; if (date) break }
RECURSIVE ScanBackward(_, _, _, _)
ScanBackward(lines, i, downTo, last) ==
    IF i < downTo THEN [date |-> 0, last |-> last]
    ELSE IF ~Truthy(lines[i + 1]) THEN ScanBackward(lines, i - 1, downTo, last)
    ELSE LET parsed == parseLogLine(lines[i + 1], last)
             date == parseTimestamp(parsed.timestamp)
         IN IF date # 0 THEN [date |-> date, last |-> parsed.last]
            ELSE ScanBackward(lines, i - 1, downTo, parsed.last)

\* for (i = 0; i < lines.length; i += step) { skip blank; parse; push date }
RECURSIVE SampleDates(_, _, _, _)
SampleDates(lines, i, step, last) ==
    IF i >= Len(lines) THEN [dates |-> {}, last |-> last]
    ELSE IF ~Truthy(lines[i + 1]) THEN SampleDates(lines, i + step, step, last)
    ELSE LET parsed == parseLogLine(lines[i + 1], last)
             date == parseTimestamp(parsed.timestamp)
             rest == SampleDates(lines, i + step, step, parsed.last)
         IN [dates |-> (IF date # 0 THEN {date} ELSE {}) \cup rest.dates,
             last |-> rest.last]

\* lines 638-709: startDate, endDate (0 = undefined) and the carried
\* timestamp the estimation leaves behind
RangeOf(dates, last) ==
    [startDate |-> IF dates # {} THEN Min(dates) ELSE 0,
     endDate |-> IF dates # {} THEN Max(dates) ELSE 0,
     last |-> last]

DateSet(date) == IF date # 0 THEN {date} ELSE {}

EstimateSampled(firstDate, lastDate, sample) ==
    RangeOf(DateSet(firstDate) \cup DateSet(lastDate) \cup sample.dates, sample.last)

EstimateEnd(lines, step, firstDate, end) ==
    EstimateSampled(firstDate, end.date,
        IF firstDate = 0 \/ end.date = 0
        THEN SampleDates(lines, 0, step, end.last)
        ELSE [dates |-> {}, last |-> end.last])

EstimateFirst(lines, n, k, first) ==
    EstimateEnd(lines,
        IF n \div (IF k = 0 THEN 1 ELSE k) > 1
        THEN n \div (IF k = 0 THEN 1 ELSE k) ELSE 1,
        first.date,
        ScanBackward(lines, n - 1, IF n - k > 0 THEN n - k ELSE 0, first.last))

EstimateScan(lines, n, k, first) ==
    EstimateFirst(lines, n, k,
        IF first.date = 0 THEN ScanForward(lines, 1, k, first.last) ELSE first)

EstimateRange(lines) ==
    EstimateScan(lines, Len(lines),
        IF MaxLinesToCheck < Len(lines) THEN MaxLinesToCheck ELSE Len(lines),
        ScanForward(lines, 0, IF Len(lines) > 0 THEN 1 ELSE 0, ResetTimestamp))

-----------------------------------------------------------------------------
(* Home: the active file, the entry-processing effect and the renders.     *)

FileIds(fs) == {fs[i].id : i \in 1..Len(fs)}

\* files.find((f) => f.id === activeFileId), as <<>> or <<file>>
ActiveOf(fs, id) == SelectSeq(fs, LAMBDA f : f.id = id)

\* useState({}) of loadingFiles; no timeout pending
LoadingInit == [state |-> <<>>, timeouts |-> {}]

\* setLoadingFiles((prev) => ({...prev, [fileId]: progress}))
WithProgress(lf, id, progress) ==
    [state |-> [k \in DOMAIN lf.state \cup {id} |->
                   IF k = id THEN progress ELSE lf.state[k]],
     timeouts |-> lf.timeouts]

\* "Clear loading state": the file's entry is set to 100 and the timeout
\* that deletes it is started
LoadingCleared(lf, id) ==
    [state |-> WithProgress(lf, id, 100).state,
     timeouts |-> lf.timeouts \cup {id}]

\* Math.random().toString() never repeats an id.  The model draws the
\* smallest id no file and no pending read has, and a drop is taken only
\* when no loading indicator of a closed file is left under that id.
FreshFileId ==
    Min({n \in 1..(MaxFiles + MaxLoads + 1) :
            n \notin FileIds(files) /\ \A l \in loads : l.id # n})
FreshRunId(rs) == Min({n \in 1..(MaxRuns + 1) : \A r \in rs : r.rid # n})

\* runs of earlier executions of the effect: still scheduled, no longer current
Superseded(rs) == {[r EXCEPT !.live = FALSE] : r \in rs}

\* the body of the entry-processing effect (lines 69-235); last is the
\* carried timestamp when it starts
EntryEffect(af, rs, last) ==
    IF af = <<>>
    THEN [entries |-> <<>>, last |-> last, runs |-> Superseded(rs)]
    ELSE LET content == af[1].content IN
         IF Len(content) > LargeFileLines
         THEN LET initialBatch ==
                      ParseBatch(Slice(content, 0, InitialBatchSize), 0, ResetTimestamp)
                  run == [rid |-> FreshRunId(rs),
                          kind |-> IF useWebWorker THEN "worker" ELSE "timer",
                          file |-> af[1].id,
                          content |-> content,
                          currentIndex |-> InitialBatchSize,
                          endIndex |-> 0,
                          phase |-> IF useWebWorker THEN "posted" ELSE "timeout",
                          live |-> TRUE]
              IN [entries |-> initialBatch.entries, last |-> initialBatch.last,
                  runs |-> Superseded(rs) \cup {run}]
         ELSE LET processed == ParseBatch(content, 0, ResetTimestamp)
              IN [entries |-> processed.entries, last |-> processed.last,
                  runs |-> Superseded(rs)]

\* A handler has set files and activeFileId.  Home renders (ActiveFilters
\* computes its counts, calling parseLogLine), the effects run (the entry
\* effect when activeFile is another object, the filter effect on the entries
\* of that render), their state updates render again, and the filter effect
\* runs on the new entries.  last is the carried timestamp the handler left.
CommitRendered(af, e1, v2, r3) ==
    /\ processedEntries' = e1.entries
    /\ runs' = e1.runs
    /\ Cardinality(e1.runs) <= MaxRuns
    /\ visibleEntries' = v2
    /\ filterStats' = r3.counts
    /\ lastValidTimestamp' = r3.last

CommitFiltered(af, e1, v2, r2) ==
    CommitRendered(af, e1, v2, RenderActiveFilters(af, v2, r2.last))

CommitEffects(af, e1) ==
    CommitFiltered(af, e1, FilterEffect(e1.entries, af),
        RenderActiveFilters(af, FilterEffect(processedEntries, af), e1.last))

CommitRender(af, r1) == CommitEffects(af, EntryEffect(af, runs, r1.last))

CommitActive(af, last) ==
    CommitRender(af, RenderActiveFilters(af, visibleEntries, last))

\* activeFile is the same object: Home renders, no effect runs
RenderOnly(r1) ==
    /\ filterStats' = r1.counts
    /\ lastValidTimestamp' = r1.last
    /\ UNCHANGED <<processedEntries, visibleEntries, runs>>

Commit(newFiles, newActive, rerun, last) ==
    /\ files' = newFiles
    /\ activeFileId' = newActive
    /\ IF rerun THEN CommitActive(ActiveOf(newFiles, newActive), last)
       ELSE RenderOnly(RenderActiveFilters(ActiveOf(newFiles, newActive),
                                           visibleEntries, last))

\* A batch callback has called setProcessedEntries: render, filter effect,
\* render.
CommitEntriesRendered(newEntries, v1, r2) ==
    /\ processedEntries' = newEntries
    /\ visibleEntries' = v1
    /\ filterStats' = r2.counts
    /\ lastValidTimestamp' = r2.last

CommitEntriesFiltered(af, newEntries, v1, r1) ==
    CommitEntriesRendered(newEntries, v1, RenderActiveFilters(af, v1, r1.last))

CommitEntriesActive(af, newEntries, last) ==
    CommitEntriesFiltered(af, newEntries, FilterEffect(newEntries, af),
        RenderActiveFilters(af, visibleEntries, last))

CommitEntries(newEntries, last) ==
    CommitEntriesActive(ActiveOf(files, activeFileId), newEntries, last)



-----------------------------------------------------------------------------
(* Lines and files of the scenarios.                                       *)

LineStamped1 == <<Stamp("std", 1)>> \o Str(<<" ", "u", "p">>)
LineStamped2 == <<Stamp("std", 2)>> \o Str(<<" ", "o", "k">>)
LineMillis2 == <<Stamp("millis", 2)>> \o Str(<<" ", "o", "k">>)
LineTrace == Str(<<" ", "a", "t", " ", "f">>)
LineBlank == Str(<<" ">>)
LineInfo == <<Stamp("std", 1)>> \o Str(<<" ", "I", "N", "F", "O", " ", "u", "p">>)
LineInfos == <<Stamp("std", 2)>> \o Str(<<" ", "i", "n", "f", "o", ":", "n", "o">>)

\* the files a user can drop on the page
Catalog ==
    {[name |-> "a", lines |-> <<LineStamped1, LineTrace, LineTrace, LineTrace, LineTrace>>],
     [name |-> "b", lines |-> <<LineStamped2, LineTrace>>]}

\* every file of at most MaxLines lines over four kinds of line
LineKinds == {LineStamped1, LineMillis2, LineTrace, LineBlank}
ParseContents == UNION {[1..n -> LineKinds] : n \in 1..MaxLines}

-----------------------------------------------------------------------------
(* Actions.                                                                *)

\* useState(null) of selectedRange, useState({datasets: [], labels: []})
ChartInit == [selectedRange |-> NoTimeRange, buckets |-> <<>>]

Placeholder(id, name) ==
    [id |-> id, name |-> name, content |-> <<>>, isLoading |-> TRUE,
     filters |-> <<>>, filterLogic |-> "OR", timeRange |-> NoTimeRange,
     startDate |-> 0, endDate |-> 0]

\* processFiles up to its await: placeholder, loading state, active file
processFilesStart(file) ==
    /\ Len(files) < MaxFiles
    /\ Cardinality(loads) < MaxLoads
    /\ FreshFileId \notin DOMAIN loadingFiles.state
    /\ loads' = loads \cup {[id |-> FreshFileId, name |-> file.name,
                             lines |-> file.lines]}
    /\ loadingFiles' = WithProgress(loadingFiles, FreshFileId, 0)
    /\ Commit(Append(files, Placeholder(FreshFileId, file.name)), FreshFileId,
              TRUE, lastValidTimestamp)
    /\ UNCHANGED <<useWebWorker, storedFiles, chart>>

\* Bucket widths are in seconds, as are the instants of the timestamps when
\* a width is chosen from a span.  "5m", the width of a file without dates
\* and the default of the chart
DefaultBucketSize == 300

\* Math.max(1, Math.ceil(diffMinutes / targetBuckets)), targetBuckets = 120
idealBucketSizeMinutes(diffSeconds) ==
    Max({1, (diffSeconds + 7199) \div 7200})

\* "Round to standard bucket sizes": the ladder, written the same way in
\* processFiles and in calculateOptimalBucketSize (0.08, 0.17 and 0.5 are
\* compared as hundredths)
standardBucketSize(ideal) ==
    IF ideal * 100 <= 8 THEN 5
    ELSE IF ideal * 100 <= 17 THEN 10
    ELSE IF ideal * 100 <= 50 THEN 30
    ELSE IF ideal <= 1 THEN 60
    ELSE IF ideal <= 5 THEN 5 * 60
    ELSE IF ideal <= 10 THEN 10 * 60
    ELSE IF ideal <= 30 THEN 30 * 60
    ELSE IF ideal <= 60 THEN 60 * 60
    ELSE IF ideal <= 360 THEN 360 * 60
    ELSE IF ideal <= 720 THEN 720 * 60
    ELSE IF ideal <= 1440 THEN 1440 * 60
    ELSE 10080 * 60

\* processFiles: bucketSize from the estimated dates
processFilesBucketSize(startDate, endDate) ==
    IF startDate # 0 /\ endDate # 0
    THEN (IF endDate - startDate <= 60 THEN 5
          ELSE IF endDate - startDate <= 60 * 60 THEN 30
          ELSE standardBucketSize(idealBucketSizeMinutes(endDate - startDate)))
    ELSE DefaultBucketSize

ProcessedFile(l, est) ==
    [id |-> l.id, name |-> l.name, content |-> l.lines, isLoading |-> FALSE,
     filters |-> <<>>, filterLogic |-> "OR", timeRange |-> NoTimeRange,
     startDate |-> est.startDate, endDate |-> est.endDate,
     bucketSize |-> processFilesBucketSize(est.startDate, est.endDate)]

ReplaceFile(fs, file) ==
    [i \in 1..Len(fs) |-> IF fs[i].id = file.id THEN file ELSE fs[i]]

\* processFiles after the read: range estimation, placeholder replaced
processFilesLoaded(l, est) ==
    /\ loads' = loads \ {l}
    /\ loadingFiles' = LoadingCleared(loadingFiles, l.id)
    /\ Commit(ReplaceFile(files, ProcessedFile(l, est)), activeFileId,
              activeFileId = l.id /\ l.id \in FileIds(files), est.last)
    /\ UNCHANGED <<useWebWorker, storedFiles, chart>>

processFilesFinish(l) == processFilesLoaded(l, EstimateRange(l.lines))

\* the callback of setTimeout(..., 500): the file's indicator is deleted
removeLoadingIndicator(id) ==
    /\ id \in loadingFiles.timeouts
    /\ loadingFiles' =
          [state |-> [k \in DOMAIN loadingFiles.state \ {id} |->
                         loadingFiles.state[k]],
           timeouts |-> loadingFiles.timeouts \ {id}]
    /\ UNCHANGED <<lastValidTimestamp, files, activeFileId, processedEntries,
                   visibleEntries, useWebWorker, runs, loads, filterStats,
                   storedFiles, chart>>

\* handleRecentFileSelect: the record is read from the store, replaces the
\* file of its id or is appended, and becomes the active file
handleRecentFileSelect(logFile) ==
    /\ Len(logFile.content) > 0
    /\ logFile.id \in FileIds(files) \/ Len(files) < MaxFiles
    /\ Commit(IF logFile.id \in FileIds(files) THEN ReplaceFile(files, logFile)
              ELSE Append(files, logFile),
              logFile.id, TRUE, lastValidTimestamp)
    /\ UNCHANGED <<useWebWorker, loads, loadingFiles, storedFiles, chart>>

\* Tabs onValueChange / tab click: setActiveFileId(id)
SelectTab(id) ==
    /\ id \in FileIds(files)
    /\ id # activeFileId
    /\ Commit(files, id, TRUE, lastValidTimestamp)
    /\ UNCHANGED <<useWebWorker, loads, loadingFiles, storedFiles, chart>>

RemainingFiles(fileId) == SelectSeq(files, LAMBDA f : f.id # fileId)

handleRemoveFile(fileId) ==
    /\ fileId \in FileIds(files)
    /\ Commit(RemainingFiles(fileId),
              IF activeFileId = fileId
              THEN (IF RemainingFiles(fileId) = <<>> THEN 0
                    ELSE RemainingFiles(fileId)[1].id)
              ELSE activeFileId,
              activeFileId = fileId, lastValidTimestamp)
    /\ UNCHANGED <<useWebWorker, loads, loadingFiles, storedFiles, chart>>

\* the activeFile of the render the handler closes over
ActiveFile == ActiveOf(files, activeFileId)[1]

\* if (!activeFile) return; setFiles(prev => prev.map(...)): the active file
\* becomes a new object with the field changed, both effects run
SetActiveFile(updatedFile) ==
    /\ ActiveOf(files, activeFileId) # <<>>
    /\ Commit(ReplaceFile(files, updatedFile), activeFileId, TRUE,
              lastValidTimestamp)
    /\ UNCHANGED <<useWebWorker, loads, loadingFiles, storedFiles, chart>>

\* Math.random().toString(): an id no filter of the file has
FreshFilterId(filters) ==
    Min({n \in 1..(MaxFilters + 1) : \A i \in 1..Len(filters) : filters[i].id # n})

handleAddFilter(term, type, isRegex) ==
    /\ term # <<>>
    /\ ActiveOf(files, activeFileId) # <<>>
    /\ Len(ActiveFile.filters) < MaxFilters
    /\ SetActiveFile(
          [ActiveFile EXCEPT !.filters =
              Append(@, [id |-> FreshFilterId(ActiveFile.filters),
                         type |-> type, term |-> term, isRegex |-> isRegex])])

handleFilterLogicChange(logic) ==
    /\ ActiveOf(files, activeFileId) # <<>>
    /\ SetActiveFile([ActiveFile EXCEPT !.filterLogic = logic])

handleRemoveFilter(id) ==
    /\ ActiveOf(files, activeFileId) # <<>>
    /\ SetActiveFile(
          [ActiveFile EXCEPT !.filters = SelectSeq(@, LAMBDA x : x.id # id)])

toggleKind(type) == IF type = "include" THEN "exclude" ELSE "include"

\* the toggle written as handleAddFilter(term, other type, isRegex) followed
\* by handleRemoveFilter(id): the filter gets a new id and moves to the end
ToggledFiltersAddRemove(filters, id) ==
    IF \E i \in 1..Len(filters) : filters[i].id = id
    THEN LET f == filters[CHOOSE i \in 1..Len(filters) : filters[i].id = id]
         IN  SelectSeq(Append(filters,
                              [id |-> FreshFilterId(filters),
                               type |-> toggleKind(f.type),
                               term |-> f.term, isRegex |-> f.isRegex]),
                       LAMBDA x : x.id # id)
    ELSE filters

ToggledFilters(filters, id) ==
    [i \in 1..Len(filters) |->
        IF filters[i].id = id
        THEN [filters[i] EXCEPT !.type = toggleKind(filters[i].type)]
        ELSE filters[i]]

onToggleFilterType(id) ==
    /\ ActiveOf(files, activeFileId) # <<>>
    /\ SetActiveFile(
          [ActiveFile EXCEPT !.filters = ToggledFilters(ActiveFile.filters, id)])

\* a clearing that empties the filter list of every open file
handleClearFiltersOfAll ==
    /\ ActiveOf(files, activeFileId) # <<>>
    /\ Commit([i \in 1..Len(files) |-> [files[i] EXCEPT !.filters = <<>>]],
              activeFileId, TRUE, lastValidTimestamp)
    /\ UNCHANGED <<useWebWorker, loads, loadingFiles, storedFiles, chart>>

handleClearFilters ==
    /\ ActiveOf(files, activeFileId) # <<>>
    /\ SetActiveFile([ActiveFile EXCEPT !.filters = <<>>])

handleTimeRangeSelect(startDate, endDate) ==
    /\ ActiveOf(files, activeFileId) # <<>>
    /\ SetActiveFile(
          [ActiveFile EXCEPT
              !.timeRange = [startDate |-> startDate, endDate |-> endDate]])

\* handleSearch: setSearchTerm, Home renders, no effect of the model runs
handleSearch ==
    /\ ActiveOf(files, activeFileId) # <<>>
    /\ Commit(files, activeFileId, FALSE, lastValidTimestamp)
    /\ UNCHANGED <<useWebWorker, loads, loadingFiles, storedFiles, chart>>

\* the parseLogLine of the worker script (lines 104-115)
workerParseLogLine(line) ==
    IF line = <<>> \/ IsBlank(line)
    THEN [timestamp |-> Sentinel, message |-> line]
    ELSE IF GenericPositions(line) # {}
         THEN [timestamp |-> line[Min(GenericPositions(line))], message |-> line]
    ELSE [timestamp |-> Sentinel, message |-> line]

\* self.onmessage of the worker: the results it posts back
WorkerEntry(lineNumber, parsed) ==
    [lineNumber |-> lineNumber, timestamp |-> parsed.timestamp,
     message |-> parsed.message]

WorkerResults(lines, startIndex) ==
    [i \in 1..Len(lines) |-> WorkerEntry(startIndex + i, workerParseLogLine(lines[i]))]

\* worker.onmessage: append the results, post the next batch or terminate
WorkerReply(r) ==
    /\ r.kind = "worker"
    /\ LET results == WorkerResults(
                          Slice(r.content, r.currentIndex,
                                r.currentIndex + WorkerBatchSize),
                          r.currentIndex)
           next == r.currentIndex + WorkerBatchSize
       IN /\ runs' = (runs \ {r}) \cup
                     (IF next < Len(r.content)
                      THEN {[r EXCEPT !.currentIndex = next]}
                      ELSE {})
          /\ CommitEntries(processedEntries \o results, lastValidTimestamp)
    /\ UNCHANGED <<files, activeFileId, useWebWorker, loads, loadingFiles, storedFiles, chart>>

\* processNextBatch (setTimeout / requestIdleCallback callback)
processNextBatch(r) ==
    /\ r.kind = "timer"
    /\ r.phase \in {"timeout", "idle"}
    /\ runs' = (runs \ {r}) \cup
               (IF r.currentIndex >= Len(r.content) THEN {}
                ELSE {[r EXCEPT !.phase = "raf",
                                !.endIndex =
                                    IF r.currentIndex + TimerBatchSize < Len(r.content)
                                    THEN r.currentIndex + TimerBatchSize
                                    ELSE Len(r.content)]})
    /\ UNCHANGED <<lastValidTimestamp, files, activeFileId, processedEntries,
                   visibleEntries, useWebWorker, loads, loadingFiles, filterStats,
                   storedFiles, chart>>

\* the requestAnimationFrame callback of processNextBatch
AnimationFrameBatch(r) ==
    /\ r.kind = "timer"
    /\ r.phase = "raf"
    /\ LET nextBatch == ParseBatch(Slice(r.content, r.currentIndex, r.endIndex),
                                   r.currentIndex, lastValidTimestamp)
           next == r.currentIndex + TimerBatchSize
       IN /\ runs' = (runs \ {r}) \cup
                     (IF next < Len(r.content)
                      THEN {[r EXCEPT !.currentIndex = next, !.phase = "idle"]}
                      ELSE {})
          /\ CommitEntries(processedEntries \o nextBatch.entries, nextBatch.last)
    /\ UNCHANGED <<files, activeFileId, useWebWorker, loads, loadingFiles, storedFiles, chart>>

\* the lines TimeSeriesChart processes: filteredEntries when there are any,
\* else entries (below the sampling thresholds: every line of the content)
ChartLines(file, visible) ==
    IF Len(visible) > 0
    THEN [i \in 1..Len(visible) |->
            IF visible[i].lineNumber <= Len(file.content)
            THEN file.content[visible[i].lineNumber] ELSE Undefined]
    ELSE file.content

\* TimeSeriesChart.  Instants are integers; the day (24 h) and the 20 h of
\* the full-day test are scaled.  A bucket
\* key, format(time, "yyyy-MM-dd HH:mm:ss"), is written as the instant it
\* formats: the widths are whole seconds, and the local time zone is taken
\* to have no repeated hour.
DayLength == 4
TwentyHours == 3

ChartLevels == {"INFO", "ERROR", "WARN", "DEBUG", "SEVERE", "OTHER"}

\* (INFO|ERROR|WARN|WARNING|DEBUG|SEVERE)
ChartLevelWords ==
    <<Str(<<"I","N","F","O">>), Str(<<"E","R","R","O","R">>),
      Str(<<"W","A","R","N">>), Str(<<"W","A","R","N","I","N","G">>),
      Str(<<"D","E","B","U","G">>), Str(<<"S","E","V","E","R","E">>)>>

\* levelMatch[1].toUpperCase() === "WARNING" ? "WARN" : ...
ChartLevelName(j) ==
    <<"INFO", "ERROR", "WARN", "WARN", "DEBUG", "SEVERE">>[j]

WordAt(upper, k, word) ==
    /\ k + Len(word) - 1 <= Len(upper)
    /\ \A i \in 1..Len(word) : upper[k + i - 1] = word[i]

\* /\[(...)\]/i : the matches as <<position, word>>
BracketedLevels(upper) ==
    {m \in (1..Len(upper)) \X (1..6) :
        /\ IsChar(upper[m[1]], "[")
        /\ WordAt(upper, m[1] + 1, ChartLevelWords[m[2]])
        /\ m[1] + Len(ChartLevelWords[m[2]]) + 1 <= Len(upper)
        /\ IsChar(upper[m[1] + Len(ChartLevelWords[m[2]]) + 1], "]")}

\* /\s(...)\s/i
SpacedLevels(upper) ==
    {m \in (1..Len(upper)) \X (1..6) :
        /\ IsSpace(upper[m[1]])
        /\ WordAt(upper, m[1] + 1, ChartLevelWords[m[2]])
        /\ m[1] + Len(ChartLevelWords[m[2]]) + 1 <= Len(upper)
        /\ IsSpace(upper[m[1] + Len(ChartLevelWords[m[2]]) + 1])}

\* /^(...)\s/i
LeadingLevels(upper) ==
    {j \in 1..6 :
        /\ WordAt(upper, 1, ChartLevelWords[j])
        /\ Len(ChartLevelWords[j]) + 1 <= Len(upper)
        /\ IsSpace(upper[Len(ChartLevelWords[j]) + 1])}

\* the match of a regular expression: the leftmost one
FirstLevel(matches) ==
    ChartLevelName((CHOOSE m \in matches : \A o \in matches : m[1] <= o[1])[2])

\* the level of a message in upper case; a leading SEVERE passes the test
\* /^(INFO|ERROR|WARN|WARNING|DEBUG|SEVERE)\s/i and is then read through
\* /^(INFO|ERROR|WARN|WARNING|DEBUG)\s/i, whose match is null: "throws"
chartLevelOf(upper) ==
    IF BracketedLevels(upper) # {} THEN FirstLevel(BracketedLevels(upper))
    ELSE IF SpacedLevels(upper) # {} THEN FirstLevel(SpacedLevels(upper))
    ELSE IF LeadingLevels(upper) # {}
         THEN (IF 6 \in LeadingLevels(upper) THEN "throws"
               ELSE ChartLevelName(Min(LeadingLevels(upper))))
         ELSE "OTHER"

chartLevel(message) == chartLevelOf(toUpperCase(message))

\* LogStats: (TRACE|DEBUG|INFO|NOTICE|WARN|WARNING|ERROR|SEVERE|CRITICAL|
\* FATAL|ALERT|EMERG|EMERGENCY)
StatsLevelWords ==
    <<Str(<<"T","R","A","C","E">>), Str(<<"D","E","B","U","G">>),
      Str(<<"I","N","F","O">>), Str(<<"N","O","T","I","C","E">>),
      Str(<<"W","A","R","N">>), Str(<<"W","A","R","N","I","N","G">>),
      Str(<<"E","R","R","O","R">>), Str(<<"S","E","V","E","R","E">>),
      Str(<<"C","R","I","T","I","C","A","L">>), Str(<<"F","A","T","A","L">>),
      Str(<<"A","L","E","R","T">>), Str(<<"E","M","E","R","G">>),
      Str(<<"E","M","E","R","G","E","N","C","Y">>)>>

\* WARNING -> WARN, EMERGENCY -> EMERG, else the word in upper case
StatsLevelName(j) ==
    <<"TRACE", "DEBUG", "INFO", "NOTICE", "WARN", "WARN", "ERROR", "SEVERE",
      "CRITICAL", "FATAL", "ALERT", "EMERG", "EMERG">>[j]

\* the level LogStats gives a message in upper case: the leftmost [WORD],
\* else the leftmost WORD between white space, else a leading WORD and
\* white space, else OTHER
statsLevelOf(upper) ==
    LET words == 1..Len(StatsLevelWords)
        after(m) == m[1] + Len(StatsLevelWords[m[2]]) + 1
        bracketed ==
            {m \in (1..Len(upper)) \X words :
                /\ IsChar(upper[m[1]], "[")
                /\ WordAt(upper, m[1] + 1, StatsLevelWords[m[2]])
                /\ after(m) <= Len(upper)
                /\ IsChar(upper[after(m)], "]")}
        spaced ==
            {m \in (1..Len(upper)) \X words :
                /\ IsSpace(upper[m[1]])
                /\ WordAt(upper, m[1] + 1, StatsLevelWords[m[2]])
                /\ after(m) <= Len(upper)
                /\ IsSpace(upper[after(m)])}
        leading ==
            {m \in {0} \X words :
                /\ WordAt(upper, 1, StatsLevelWords[m[2]])
                /\ after(m) <= Len(upper)
                /\ IsSpace(upper[after(m)])}
        first(matches) ==
            StatsLevelName((CHOOSE m \in matches :
                               \A o \in matches : m[1] <= o[1])[2])
    IN  IF bracketed # {} THEN first(bracketed)
        ELSE IF spaced # {} THEN first(spaced)
        ELSE IF leading # {} THEN first(leading)
        ELSE "OTHER"

statsLevel(message) == statsLevelOf(toUpperCase(message))

\* for (i...) { if (line === undefined) continue; parseLogLine(line);
\* if (!date) continue; level; newTimestampData.push({date, level}) }
RECURSIVE ChartScan(_, _, _)
RECURSIVE ChartScanned(_, _, _)
ChartScan(lines, last, data) ==
    IF lines = <<>> THEN [last |-> last, data |-> data, thrown |-> FALSE]
    ELSE IF Head(lines) = Undefined THEN ChartScan(Tail(lines), last, data)
    ELSE ChartScanned(lines, parseLogLine(Head(lines), last), data)

ChartScanned(lines, parsed, data) ==
    IF parseTimestamp(parsed.timestamp) = 0
    THEN ChartScan(Tail(lines), parsed.last, data)
    ELSE IF chartLevel(parsed.message) = "throws"
         THEN [last |-> parsed.last, data |-> data, thrown |-> TRUE]
         ELSE ChartScan(Tail(lines), parsed.last,
                        Append(data,
                               [date |-> parseTimestamp(parsed.timestamp),
                                level |-> chartLevel(parsed.message)]))

\* bucketSize={activeFile.bucketSize || "5m"}, as a width
bucketSizeOf(file) ==
    IF "bucketSize" \in DOMAIN file THEN file.bucketSize ELSE DefaultBucketSize

\* the effect that copies props.timeRange into selectedRange when the file
\* has its dates; otherwise selectedRange stays
ChartSelected(file, selectedRange) ==
    IF file.startDate # 0 /\ file.endDate # 0
    THEN (IF file.timeRange.startDate # 0 /\ file.timeRange.endDate # 0
          THEN file.timeRange ELSE NoTimeRange)
    ELSE selectedRange

useSelectedRange(selectedRange) ==
    selectedRange.startDate # 0 /\ selectedRange.endDate # 0

DayStart(t) == (t \div DayLength) * DayLength

\* startTime / endTime: the selected range, else the file dates (the whole
\* day when both are on one day), else the data's min / max (whole days
\* when they are more than 20 h apart)
ChartTimeRange(selectedRange, file, dates) ==
    IF useSelectedRange(selectedRange)
    THEN [startTime |-> selectedRange.startDate,
          endTime |-> selectedRange.endDate]
    ELSE IF file.startDate # 0 /\ file.endDate # 0
         THEN (IF DayStart(file.startDate) = DayStart(file.endDate)
               THEN [startTime |-> DayStart(file.startDate),
                     endTime |-> DayStart(file.endDate) + DayLength]
               ELSE [startTime |-> file.startDate, endTime |-> file.endDate])
         ELSE (IF Max(dates) - Min(dates) > TwentyHours
               THEN [startTime |-> DayStart(Min(dates)),
                     endTime |-> DayStart(Max(dates)) + DayLength - 1]
               ELSE [startTime |-> Min(dates), endTime |-> Max(dates)])

\* if (startTime > endTime) swap
OrderedRange(r) ==
    IF r.startTime > r.endTime
    THEN [startTime |-> r.endTime, endTime |-> r.startTime]
    ELSE r

normalizedStart(r, w) == ((r.startTime - w) \div w) * w

\* a bucket grid that starts at the padded start itself
InitialBucketsFromStart(r, w) ==
    {(r.startTime - w) + i * w : i \in 0..((r.endTime - r.startTime + 2 * w) \div w)}

\* while (currentTime <= paddedEnd) { buckets[key] = {}; currentTime += w }
InitialBuckets(r, w) ==
    {normalizedStart(r, w) + i * w :
        i \in 0..((r.endTime + w - normalizedStart(r, w)) \div w)}

bucketTime(date, w) == (date \div w) * w

dataToUse(selectedRange, r, data) ==
    IF useSelectedRange(selectedRange)
    THEN SelectSeq(data, LAMBDA d : d.date >= r.startTime /\ d.date <= r.endTime)
    ELSE data

\* a fill loop that skips the entries outside the initialised buckets
FilledBucketsInitialOnly(keys, use, w) ==
    [k \in keys |->
        [lv \in ChartLevels |->
            Cardinality({i \in 1..Len(use) :
                            bucketTime(use[i].date, w) = k /\ use[i].level = lv})]]

\* the buckets after the fill loop: a count per bucket key and level
FilledBuckets(keys, use, w) ==
    [k \in keys \cup {bucketTime(use[i].date, w) : i \in 1..Len(use)} |->
        [lv \in ChartLevels |->
            Cardinality({i \in 1..Len(use) :
                            bucketTime(use[i].date, w) = k /\ use[i].level = lv})]]

BucketsOver(selectedRange, r, data, w) ==
    FilledBuckets(InitialBuckets(r, w), dataToUse(selectedRange, r, data), w)

\* the buckets after the frame: unchanged when there is nothing to process,
\* when no line has a date, or when the level extraction throws
ChartBuckets(file, selectedRange, lines, scan) ==
    IF lines = <<>> \/ scan.thrown \/ scan.data = <<>>
    THEN chart.buckets
    ELSE BucketsOver(selectedRange,
             OrderedRange(ChartTimeRange(selectedRange, file,
                 {scan.data[i].date : i \in 1..Len(scan.data)})),
             scan.data, bucketSizeOf(file))

ChartFrame(file, selectedRange, lines, scan) ==
    /\ lastValidTimestamp' =
          IF lines = <<>> THEN lastValidTimestamp ELSE scan.last
    /\ chart' = [selectedRange |-> selectedRange,
                 buckets |-> ChartBuckets(file, selectedRange, lines, scan)]

\* the requestAnimationFrame callback of the TimeSeriesChart effect
ChartEffect ==
    /\ ActiveOf(files, activeFileId) # <<>>
    /\ ChartFrame(ActiveFile,
                  ChartSelected(ActiveFile, chart.selectedRange),
                  ChartLines(ActiveFile, visibleEntries),
                  ChartScan(ChartLines(ActiveFile, visibleEntries),
                            lastValidTimestamp, <<>>))
    /\ UNCHANGED <<files, activeFileId, processedEntries, visibleEntries,
                   useWebWorker, runs, loads, loadingFiles, filterStats, storedFiles>>

-----------------------------------------------------------------------------
(* Spec: files are dropped, tabs selected, files closed and filters        *)
(* cleared while the batches of the entry-processing effect run.           *)

Init ==
    /\ lastValidTimestamp = Sentinel
    /\ files = <<>>
    /\ activeFileId = 0
    /\ processedEntries = <<>>
    /\ visibleEntries = <<>>
    /\ useWebWorker \in BOOLEAN
    /\ runs = {}
    /\ loads = {}
    /\ loadingFiles = LoadingInit
    /\ filterStats = <<>>
    /\ chart = ChartInit
    /\ storedFiles = {}

Next ==
    \/ \E file \in Catalog : processFilesStart(file)
    \/ \E l \in loads : processFilesFinish(l)
    \/ \E id \in loadingFiles.timeouts : removeLoadingIndicator(id)
    \/ \E id \in FileIds(files) : SelectTab(id)
    \/ \E id \in FileIds(files) : handleRemoveFile(id)
    \/ handleClearFilters
    \/ \E r \in runs : WorkerReply(r)
    \/ \E r \in runs : processNextBatch(r)
    \/ \E r \in runs : AnimationFrameBatch(r)

Spec == Init /\ [][Next]_vars

-----------------------------------------------------------------------------
(* Properties of ingestion under Spec.                                     *)

\* the timestamp a line carries by itself, the sentinel when it has none
DetectedTimestamp(line) == parseLogLine(line, Sentinel).timestamp

\* the timestamp line i of a file receives in a run of its own: its own, or
\* that of the nearest timestamped line before it, or the sentinel
StampedBefore(content, i) ==
    {j \in 1..i : j <= Len(content) /\ DetectedTimestamp(content[j]) # Sentinel}

ExpectedTimestamp(content, i) ==
    IF StampedBefore(content, i) = {} THEN Sentinel
    ELSE DetectedTimestamp(content[Max(StampedBefore(content, i))])

\* the entries a step has appended to processedEntries
Appended ==
    SubSeq(processedEntries', Len(processedEntries) + 1, Len(processedEntries'))

\* run r has executed its batch callback in this step
Acted(r) == r \notin runs' /\ [r EXCEPT !.live = FALSE] \notin runs'

\* C1: every entry a timer batch of the current run appends has the timestamp
\* of its line or of the nearest timestamped line before it in the run's own
\* file, whatever was dropped or parsed for another file between the batches.
C1_CarryIsolatedPerRun ==
    [][\A r \in runs :
          (r.kind = "timer" /\ r.phase = "raf" /\ r.live /\ Acted(r)) =>
              /\ Len(processedEntries') >= Len(processedEntries)
              /\ \A i \in 1..Len(Appended) :
                    Appended[i].timestamp =
                        ExpectedTimestamp(r.content, Appended[i].lineNumber)]_vars

\* C3: a batch callback of a run whose effect execution is no longer the
\* current one (file closed, tab switched, active file re-set) leaves
\* processedEntries alone.
C3_NoAppendAfterCancel ==
    [][\A r \in runs :
          (~r.live /\ Acted(r)) => processedEntries' = processedEntries]_vars

\* C4: in every state the line numbers of processedEntries start at 1 or
\* above, are pairwise distinct and strictly increase along the sequence.
C4_LineNumbersIncrease ==
    \A i \in 1..Len(processedEntries) :
        /\ processedEntries[i].lineNumber >= 1
        /\ i > 1 => processedEntries[i].lineNumber
                        > processedEntries[i - 1].lineNumber

-----------------------------------------------------------------------------
(* SpecParse: one dropped file, any content of at most MaxLines lines over *)
(* LineKinds, is read and ingested by the timer-driven batches alone.      *)

InitParse ==
    /\ lastValidTimestamp = Sentinel
    /\ files = <<Placeholder(1, "p")>>
    /\ activeFileId = 1
    /\ processedEntries = <<>>
    /\ visibleEntries = <<>>
    /\ useWebWorker = FALSE
    /\ runs = {}
    /\ loads \in {{[id |-> 1, name |-> "p", lines |-> c]} : c \in ParseContents}
    /\ loadingFiles = WithProgress(LoadingInit, 1, 0)
    /\ filterStats = <<>>
    /\ chart = ChartInit
    /\ storedFiles = {}

NextParse ==
    \/ \E l \in loads : processFilesFinish(l)
    \/ \E id \in loadingFiles.timeouts : removeLoadingIndicator(id)
    \/ \E r \in runs : processNextBatch(r)
    \/ \E r \in runs : AnimationFrameBatch(r)

SpecParse == InitParse /\ [][NextParse]_vars

\* C2: within a run that began with the reset, every entry has the timestamp
\* of its line or, for a blank or timestamp-free line, that of the nearest
\* timestamped line before it (the sentinel when there is none), and the
\* carried timestamp after the lines parsed so far is that same value: no
\* line of the file has reset it.
C2_CarryForwardWithinRun ==
    \A i \in 1..Len(files) :
        (files[i].id = activeFileId /\ ~files[i].isLoading) =>
            /\ \A k \in 1..Len(processedEntries) :
                  processedEntries[k].timestamp =
                      ExpectedTimestamp(files[i].content,
                                        processedEntries[k].lineNumber)
            /\ Len(processedEntries) > 0 =>
                  lastValidTimestamp =
                      ExpectedTimestamp(files[i].content, Len(processedEntries))

\* a blank line and a timestamp-free line, parsed in a timer batch after a
\* timestamped line, both carry that line's timestamp
C2_Witness ==
    /\ runs = {}
    /\ Len(processedEntries) = MaxLines
    /\ processedEntries[1].timestamp = Stamp("std", 1)
    /\ IsBlank(processedEntries[MaxLines - 1].message)
    /\ processedEntries[MaxLines - 1].timestamp = Stamp("std", 1)
    /\ processedEntries[MaxLines].message = LineTrace
    /\ processedEntries[MaxLines].timestamp = Stamp("std", 1)

-----------------------------------------------------------------------------
(* SpecView: a stored file with persisted filters, combinator and time     *)
(* range is opened from the recent-files list and ingested while Home      *)
(* re-renders and the chart processes its frames.                          *)

TermInfo == Str(<<"i", "n", "f", "o">>)
TermPattern == Str(<<"u", ".">>)
TermUnclosed == Str(<<"(">>)

FilterChoices ==
    {[type |-> ty, term |-> c.term, isRegex |-> c.isRegex] :
        ty \in {"include", "exclude"},
        c \in {[term |-> TermInfo, isRegex |-> FALSE],
               [term |-> TermPattern, isRegex |-> TRUE],
               [term |-> TermUnclosed, isRegex |-> TRUE]}}

\* the choices in a fixed order
FilterChoiceSeq ==
    <<[type |-> "include", term |-> TermInfo, isRegex |-> FALSE],
      [type |-> "exclude", term |-> TermInfo, isRegex |-> FALSE],
      [type |-> "include", term |-> TermPattern, isRegex |-> TRUE],
      [type |-> "exclude", term |-> TermPattern, isRegex |-> TRUE],
      [type |-> "include", term |-> TermUnclosed, isRegex |-> TRUE],
      [type |-> "exclude", term |-> TermUnclosed, isRegex |-> TRUE]>>

\* every combination of at most MaxFilters of the choices (with repetition),
\* each in one order: visibility does not depend on the order of the list
FilterLists ==
    UNION {{[i \in 1..n |-> FilterChoiceSeq[idx[i]]] :
               idx \in {f \in [1..n -> 1..Len(FilterChoiceSeq)] :
                           \A i \in 1..(n - 1) : f[i] <= f[i + 1]}} :
           n \in 0..MaxFilters}

WithIds(fs) ==
    [i \in 1..Len(fs) |->
        [id |-> i, type |-> fs[i].type, term |-> fs[i].term,
         isRegex |-> fs[i].isRegex]]

ViewContents ==
    {<<LineInfo, LineTrace, LineInfos>>,
     <<LineInfo, LineTrace, LineInfos, LineTrace>>}

\* a record as processFiles and the filter handlers have saved it
StoredRecord(content, fs, logic, startDate, endDate, est) ==
    [id |-> 9, name |-> "r", content |-> content, isLoading |-> FALSE,
     filters |-> WithIds(fs), filterLogic |-> logic,
     timeRange |-> [startDate |-> startDate, endDate |-> endDate],
     startDate |-> est.startDate, endDate |-> est.endDate]

\* no range, a one-sided range or a range with start <= end
TimeRanges ==
    {tr \in [startDate : 0..MaxTime, endDate : 0..MaxTime] :
        tr.startDate = 0 \/ tr.endDate = 0 \/ tr.startDate <= tr.endDate}

StoredRecords ==
    {StoredRecord(c, fs, lg, tr.startDate, tr.endDate, EstimateRange(c)) :
        c \in ViewContents, fs \in FilterLists, lg \in {"AND", "OR"},
        tr \in TimeRanges}

InitView ==
    /\ lastValidTimestamp = Sentinel
    /\ files = <<>>
    /\ activeFileId = 0
    /\ processedEntries = <<>>
    /\ visibleEntries = <<>>
    /\ useWebWorker \in BOOLEAN
    /\ runs = {}
    /\ loads = {}
    /\ loadingFiles = LoadingInit
    /\ filterStats = <<>>
    /\ chart = ChartInit
    /\ storedFiles \in {{rec} : rec \in StoredRecords}

NextView ==
    \/ \E rec \in storedFiles : files = <<>> /\ handleRecentFileSelect(rec)
    \/ \E r \in runs : WorkerReply(r)
    \/ \E r \in runs : processNextBatch(r)
    \/ \E r \in runs : AnimationFrameBatch(r)
    \/ handleSearch
    \/ ChartEffect

SpecView == InitView /\ [][NextView]_vars

-----------------------------------------------------------------------------
(* Properties of filtering under SpecView.                                 *)

\* the filters of the given kind of a file, as a set
FiltersOfType(file, type) ==
    {file.filters[j] : j \in {x \in 1..Len(file.filters) : file.filters[x].type = type}}

\* the entry is among the visible entries
Shown(entry) == \E v \in 1..Len(visibleEntries) : visibleEntries[v] = entry

\* C5: in every state, an entry of the active file whose message matches at
\* least one exclude filter is not visible, whatever the combinator and
\* however many include filters match it too.
C5_ExcludePrecedence ==
    \A i \in 1..Len(files) : \A k \in 1..Len(processedEntries) :
        (/\ files[i].id = activeFileId
         /\ \E f \in FiltersOfType(files[i], "exclude") :
               FilterMatches(f, processedEntries[k].message))
        => ~Shown(processedEntries[k])

\* an entry matched by an exclude and by an include filter is hidden while
\* another entry is shown
C5_Witness ==
    \E i \in 1..Len(files) : \E k \in 1..Len(processedEntries) :
        /\ files[i].id = activeFileId
        /\ \E f \in FiltersOfType(files[i], "exclude") :
              FilterMatches(f, processedEntries[k].message)
        /\ \E f \in FiltersOfType(files[i], "include") :
              FilterMatches(f, processedEntries[k].message)
        /\ ~Shown(processedEntries[k])
        /\ Len(visibleEntries) > 0

\* the include rule of the specification
IncludeRule(file, message) ==
    \/ FiltersOfType(file, "include") = {}
    \/ /\ file.filterLogic = "AND"
       /\ \A f \in FiltersOfType(file, "include") : FilterMatches(f, message)
    \/ /\ file.filterLogic = "OR"
       /\ \E f \in FiltersOfType(file, "include") : FilterMatches(f, message)

\* C6: in every state, an entry of the active file that lies in the time
\* window and is matched by no exclude filter is visible exactly when there
\* are no include filters, or the combinator is AND and every include filter
\* matches, or the combinator is OR and at least one include filter matches.
C6_VisibilityRule ==
    \A i \in 1..Len(files) : \A k \in 1..Len(processedEntries) :
        (/\ files[i].id = activeFileId
         /\ TimeRangePasses(processedEntries[k], files[i].timeRange)
         /\ \A f \in FiltersOfType(files[i], "exclude") :
               ~FilterMatches(f, processedEntries[k].message))
        => (Shown(processedEntries[k])
              <=> IncludeRule(files[i], processedEntries[k].message))

\* two include filters under AND: an entry matching both is shown, an entry
\* matching only one of them is hidden
C6_Witness ==
    \E i \in 1..Len(files) : \E k, m \in 1..Len(processedEntries) :
        /\ files[i].id = activeFileId
        /\ files[i].filterLogic = "AND"
        /\ Cardinality(FiltersOfType(files[i], "include")) >= 2
        /\ Shown(processedEntries[k])
        /\ ~Shown(processedEntries[m])
        /\ \E f \in FiltersOfType(files[i], "include") :
              FilterMatches(f, processedEntries[m].message)
        /\ TimeRangePasses(processedEntries[m], files[i].timeRange)

\* the pattern of a regex filter does not compile
Uncompilable(f) == f.isRegex /\ ~RegExpCompiles(f.term)

\* the rule of the specification over the filters that compile only: an
\* uncompilable filter counts as matching nothing
RuleOverCompilable(file, message) ==
    /\ \A f \in FiltersOfType(file, "exclude") :
          Uncompilable(f) \/ ~FilterMatches(f, message)
    /\ \/ FiltersOfType(file, "include") = {}
       \/ /\ file.filterLogic = "AND"
          /\ \A f \in FiltersOfType(file, "include") :
                ~Uncompilable(f) /\ FilterMatches(f, message)
       \/ /\ file.filterLogic = "OR"
          /\ \E f \in FiltersOfType(file, "include") :
                ~Uncompilable(f) /\ FilterMatches(f, message)

\* C7: in every state whose active file has a regex filter that does not
\* compile, the visible entries are computed for every entry and are those
\* the rule gives when that filter matches nothing: as exclude it hides
\* nothing, under OR it adds no match, under AND it hides every entry.
C7_InvalidRegexNeverMatches ==
    \A i \in 1..Len(files) :
        (/\ files[i].id = activeFileId
         /\ \E j \in 1..Len(files[i].filters) : Uncompilable(files[i].filters[j]))
        => /\ \A k \in 1..Len(processedEntries) :
                 Shown(processedEntries[k]) <=>
                     /\ TimeRangePasses(processedEntries[k], files[i].timeRange)
                     /\ RuleOverCompilable(files[i], processedEntries[k].message)
           /\ (files[i].filterLogic = "AND"
               /\ \E f \in FiltersOfType(files[i], "include") : Uncompilable(f))
              => visibleEntries = <<>>

\* an uncompilable exclude filter next to a compilable include filter: the
\* file is ingested completely, some entries are shown and some hidden
C7_Witness ==
    \E i \in 1..Len(files) :
        /\ files[i].id = activeFileId
        /\ \E f \in FiltersOfType(files[i], "exclude") : Uncompilable(f)
        /\ \E f \in FiltersOfType(files[i], "include") : ~Uncompilable(f)
        /\ Len(processedEntries) = Len(files[i].content)
        /\ Len(visibleEntries) > 0
        /\ Len(visibleEntries) < Len(processedEntries)

C9_IngestionUnaffected ==
    \A i \in 1..Len(files) :
        (files[i].id = activeFileId /\ ~useWebWorker) =>
            \A k \in 1..Len(processedEntries) :
                processedEntries[k].timestamp =
                    ExpectedTimestamp(files[i].content,
                                      processedEntries[k].lineNumber)

\* the entries of the complete entry set the filter matches, by the matching
\* of the Home filter effect
MatchingEntries(filter) ==
    {k \in 1..Len(processedEntries) :
        FilterMatches(filter, processedEntries[k].message)}

\* C10: once the active file is ingested completely, the count shown for each
\* filter is the number of entries of processedEntries whose message the
\* filter matches by the matching that decides visibility.
C10_MatchCountExact ==
    \A i \in 1..Len(files) :
        (/\ files[i].id = activeFileId
         /\ runs = {}
         /\ Len(processedEntries) = Len(files[i].content))
        => /\ Len(filterStats) = Len(files[i].filters)
           /\ \A j \in 1..Len(files[i].filters) :
                 filterStats[j] = Cardinality(MatchingEntries(files[i].filters[j]))

-----------------------------------------------------------------------------
(* SpecFilter: a stored file is opened and its filters, combinator and     *)
(* time range are edited.  The stored filters carry the ids they were      *)
(* given when they were added (Math.random strings of an earlier session), *)
(* which no filter added in this session receives.                         *)

StoredIdInfo == 5
StoredIdPattern == 7

StoredFilters ==
    <<[id |-> StoredIdInfo, type |-> "include", term |-> TermInfo,
       isRegex |-> FALSE],
      [id |-> StoredIdPattern, type |-> "exclude", term |-> TermPattern,
       isRegex |-> TRUE]>>

FilterIds == (1..(MaxFilters + 1)) \cup {StoredIdInfo, StoredIdPattern}

\* the filters typed into the search bar
AddChoices ==
    {[type |-> ty, term |-> TermUnclosed, isRegex |-> TRUE] :
        ty \in {"include", "exclude"}}

\* the chart selections: a range, or the reset of the range
SelectedRanges == {NoTimeRange, [startDate |-> 1, endDate |-> 1]}

InitFilter ==
    /\ lastValidTimestamp = Sentinel
    /\ files = <<>>
    /\ activeFileId = 0
    /\ processedEntries = <<>>
    /\ visibleEntries = <<>>
    /\ useWebWorker = FALSE
    /\ runs = {}
    /\ loads = {}
    /\ loadingFiles = LoadingInit
    /\ filterStats = <<>>
    /\ chart = ChartInit
    /\ storedFiles =
          {[StoredRecord(<<LineInfo, LineTrace, LineInfos>>, <<>>, "OR", 0, 0,
                         EstimateRange(<<LineInfo, LineTrace, LineInfos>>))
               EXCEPT !.filters = StoredFilters]}

NextFilter ==
    \/ \E rec \in storedFiles : files = <<>> /\ handleRecentFileSelect(rec)
    \/ \E f \in AddChoices : handleAddFilter(f.term, f.type, f.isRegex)
    \/ \E id \in FilterIds : handleRemoveFilter(id)
    \/ \E id \in FilterIds : onToggleFilterType(id)
    \/ \E logic \in {"AND", "OR"} : handleFilterLogicChange(logic)
    \/ handleClearFilters
    \/ \E tr \in SelectedRanges :
          handleTimeRangeSelect(tr.startDate, tr.endDate)
    \/ handleSearch

SpecFilter == InitFilter /\ [][NextFilter]_vars

\* the filter list of the active file in the state after a step
FiltersAfter == ActiveOf(files', activeFileId')[1].filters

\* C11: toggling the kind of filter id leaves the filter list with the same
\* ids in the same order; only the type of the filter with that id flips
\* between include and exclude, and its id, term and isRegex flag, and every
\* other filter, are unchanged.
C11_TogglePreservesIdentity ==
    [][\A id \in FilterIds :
          onToggleFilterType(id) =>
              /\ Len(FiltersAfter) = Len(ActiveFile.filters)
              /\ \A i \in 1..Len(ActiveFile.filters) :
                    /\ FiltersAfter[i].id = ActiveFile.filters[i].id
                    /\ FiltersAfter[i].term = ActiveFile.filters[i].term
                    /\ FiltersAfter[i].isRegex = ActiveFile.filters[i].isRegex
                    /\ FiltersAfter[i].type =
                          IF ActiveFile.filters[i].id = id
                          THEN (IF ActiveFile.filters[i].type = "include"
                                THEN "exclude" ELSE "include")
                          ELSE ActiveFile.filters[i].type]_vars

\* the first stored filter has been toggled (no other handler changes a
\* type, and no added filter receives a stored id): it is an exclude filter
\* now, still first, and the second stored filter is as it was
C11_Witness ==
    \E i \in 1..Len(files) :
        /\ files[i].id = activeFileId
        /\ Len(files[i].filters) = 2
        /\ files[i].filters[1] = [StoredFilters[1] EXCEPT !.type = "exclude"]
        /\ files[i].filters[2] = StoredFilters[2]

-----------------------------------------------------------------------------
(* processFiles: reading a dropped file.  A file is a sequence of bytes;   *)
(* an ASCII byte is written as the character it encodes, and the one       *)
(* two-byte character of the model is the pair LeadByte, ContinuationByte. *)
(* The size thresholds (50 MB, 200 MB), the chunk sizes (10 MB, 20 MB) and *)
(* the line caps (500000, 200000) are scaled down keeping their order and  *)
(* the relation 200 MB = maxChunksToProcess * 20 MB.                       *)

MaxChars == 5
MaxSampleExtra == 4

LargeFileSize == 4
VeryLargeFileSize == 30
ChunkSize == 2
VeryLargeChunkSize == 3
MaxChunksToProcess == 10
LineCap == 3
VeryLargeLineCap == 2

Newline == Ch("\n")
TwoByteChar == Ch("e-acute")
ReplacementChar == Ch("U+FFFD")
LeadByte == [fmt |-> "byte", t |-> 0, c |-> "C3"]
ContinuationByte == [fmt |-> "byte", t |-> 0, c |-> "A9"]

\* the bytes of a text file (UTF-8)
RECURSIVE Encode(_)
Encode(text) ==
    IF text = <<>> THEN <<>>
    ELSE (IF Head(text) = TwoByteChar THEN <<LeadByte, ContinuationByte>>
          ELSE <<Head(text)>>) \o Encode(Tail(text))

\* FileReader.readAsText: UTF-8 decoding of the bytes of one blob; a byte
\* that is no complete sequence inside the blob decodes to U+FFFD
RECURSIVE readAsText(_)
readAsText(bytes) ==
    IF bytes = <<>> THEN <<>>
    ELSE IF Len(bytes) >= 2 /\ bytes[1] = LeadByte /\ bytes[2] = ContinuationByte
         THEN <<TwoByteChar>> \o readAsText(Tail(Tail(bytes)))
         ELSE IF Head(bytes).fmt = "byte"
              THEN <<ReplacementChar>> \o readAsText(Tail(bytes))
              ELSE <<Head(bytes)>> \o readAsText(Tail(bytes))

\* Blob.slice(start, end), 0-based, end exclusive and clamped to the size
slice(bytes, start, end) == SubSeq(bytes, start + 1, Min({end, Len(bytes)}))

\* String.split("\n")
RECURSIVE split(_)
split(text) ==
    IF \E k \in 1..Len(text) : text[k] = Newline
    THEN LET k == Min({j \in 1..Len(text) : text[j] = Newline})
         IN  <<SubSeq(text, 1, k - 1)>> \o split(SubSeq(text, k + 1, Len(text)))
    ELSE <<text>>

isLargeFile(size) == size > LargeFileSize
isVeryLargeFile(size) == size > VeryLargeFileSize
chunkSize(size) ==
    IF isVeryLargeFile(size) THEN VeryLargeChunkSize ELSE ChunkSize
totalChunks(size) == (size + chunkSize(size) - 1) \div chunkSize(size)
chunksToProcess(size) == Min({totalChunks(size), MaxChunksToProcess})

\* a sampling that reads the first chunks only
chunkIndexFromStart(i, total) == i

\* a sampling whose middle chunks start two chunks before the half
chunkIndexMiddleEarly(i, total) ==
    IF i < 4 THEN i
    ELSE IF i < 7 THEN (total \div 2) - 2 + (i - 4)
    ELSE total - (10 - i)

\* chunks from the beginning, the middle and the end
chunkIndex(i, total) ==
    IF i < 4 THEN i
    ELSE IF i < 7 THEN (total \div 2) + (i - 4)
    ELSE total - (10 - i)

\* `[NOTICE] This file is very large (${size}MB). Showing a representative
\* sample.`: one token that carries the size
NoticeLine(size) == <<[fmt |-> "notice", t |-> size, c |-> ""]>>

\* `[ERROR] Failed to process file: ${name}. File may be too large or
\* corrupted.`
ErrorLine(name) == <<[fmt |-> "error", t |-> 0, c |-> name]>>

maxLines(size) == IF isVeryLargeFile(size) THEN VeryLargeLineCap ELSE LineCap
samplingRate(n, cap) == (n + cap - 1) \div cap

\* for (i = 0; i < processedLines.length; i += samplingRate) push
sampledLines(processedLines, cap) ==
    IF Len(processedLines) > cap
    THEN [k \in 1..((Len(processedLines) + samplingRate(Len(processedLines), cap) - 1)
                     \div samplingRate(Len(processedLines), cap)) |->
             processedLines[(k - 1) * samplingRate(Len(processedLines), cap) + 1]]
    ELSE processedLines

\* the chunked loop body: the first line of a later chunk continues the
\* last line read so far
chunkAppended(processedLines, start, chunkLines) ==
    IF start > 0 /\ Len(processedLines) > 0 /\ Len(chunkLines) > 0
    THEN [processedLines EXCEPT ![Len(processedLines)] = @ \o chunkLines[1]]
         \o Tail(chunkLines)
    ELSE processedLines \o chunkLines

\* the sampling loop body: processedLines = [...processedLines, ...chunkLines]
sampleAppended(l) ==
    l.processedLines \o
    split(readAsText(slice(l.bytes,
        chunkIndex(l.loadedChunks, totalChunks(Len(l.bytes)))
            * VeryLargeChunkSize,
        chunkIndex(l.loadedChunks, totalChunks(Len(l.bytes)))
            * VeryLargeChunkSize + VeryLargeChunkSize)))

\* processedLines after the chunk the pending read of l delivers
chunkedAppended(l) ==
    chunkAppended(l.processedLines, l.loadedChunks * ChunkSize,
        split(readAsText(slice(l.bytes, l.loadedChunks * ChunkSize,
                               l.loadedChunks * ChunkSize + ChunkSize))))

\* processFiles up to its first await, for a file given by its bytes
processFilesReadAmong(file, maxLoads) ==
    /\ Len(files) < MaxFiles
    /\ Cardinality(loads) < maxLoads
    /\ FreshFileId \notin DOMAIN loadingFiles.state
    /\ loads' = loads \cup {[id |-> FreshFileId, name |-> file.name,
                             bytes |-> file.bytes, loadedChunks |-> 0,
                             processedLines |-> <<>>]}
    /\ loadingFiles' = WithProgress(loadingFiles, FreshFileId, 0)
    /\ Commit(Append(files, Placeholder(FreshFileId, file.name)), FreshFileId,
              TRUE, lastValidTimestamp)
    /\ UNCHANGED <<useWebWorker, storedFiles, chart>>

processFilesRead(file) == processFilesReadAmong(file, MaxLoads)

\* Math.round((loadedChunks / chunks) * 100)
progressOf(loadedChunks, chunks) ==
    (200 * loadedChunks + chunks) \div (2 * chunks)

\* a progress of the sampling loop taken over all chunks of the file
samplingProgressOverTotal(l) ==
    progressOf(l.loadedChunks + 1, totalChunks(Len(l.bytes)))

\* loadedChunks++; progress of the sampling loop / of the chunked loop
samplingProgress(l) ==
    progressOf(l.loadedChunks + 1, chunksToProcess(Len(l.bytes)))
chunkedProgress(l) ==
    progressOf(l.loadedChunks + 1, totalChunks(Len(l.bytes)))

\* the awaited read is still pending: the load record is replaced and the
\* progress recorded
ReadContinues(l, processedLines, progress) ==
    /\ loads' = (loads \ {l}) \cup
                {[l EXCEPT !.loadedChunks = @ + 1,
                           !.processedLines = processedLines]}
    /\ loadingFiles' = WithProgress(loadingFiles, l.id, progress)
    /\ UNCHANGED <<lastValidTimestamp, files, activeFileId, processedEntries,
                   visibleEntries, useWebWorker, runs, filterStats,
                   storedFiles, chart>>

\* processFiles from the end of the try block: estimation, processedFile,
\* setFiles
ReadEstimated(l, lines, est) ==
    /\ loads' = loads \ {l}
    /\ loadingFiles' = LoadingCleared(loadingFiles, l.id)
    /\ Commit(ReplaceFile(files,
                  ProcessedFile([id |-> l.id, name |-> l.name, lines |-> lines],
                                est)),
              activeFileId, activeFileId = l.id /\ l.id \in FileIds(files),
              est.last)
    /\ UNCHANGED <<useWebWorker, storedFiles, chart>>

ReadFinished(l, lines) == ReadEstimated(l, lines, EstimateRange(lines))

\* reader.onload of the whole-file read: lines = text.split("\n")
\* (the percentages reader.onprogress records while the file loads are not
\* modelled: the entry of the file goes from 0 to the 100 of the clearing)
FileLoaded(l) ==
    /\ ~isLargeFile(Len(l.bytes))
    /\ ReadFinished(l, split(readAsText(l.bytes)))

\* chunkReader.onload in the sequential loop
ChunkLoaded(l) ==
    /\ isLargeFile(Len(l.bytes)) /\ ~isVeryLargeFile(Len(l.bytes))
    /\ IF (l.loadedChunks + 1) * ChunkSize < Len(l.bytes)
       THEN ReadContinues(l, chunkedAppended(l), chunkedProgress(l))
       ELSE ReadFinished(l, sampledLines(chunkedAppended(l),
                                         maxLines(Len(l.bytes))))

\* chunkReader.onload in the sampling loop
SampleLoaded(l) ==
    /\ isVeryLargeFile(Len(l.bytes))
    /\ IF l.loadedChunks + 1 < chunksToProcess(Len(l.bytes))
       THEN ReadContinues(l, sampleAppended(l), samplingProgress(l))
       ELSE ReadFinished(l,
                sampledLines(<<NoticeLine(Len(l.bytes))>> \o sampleAppended(l),
                             maxLines(Len(l.bytes))))

\* the read fails: the FileReader fires its error event, for which no
\* handler is registered (only onload resolves the promise), so the awaited
\* promise never settles and processFiles never resumes
ReadFailed(l) ==
    /\ loads' = loads \ {l}
    /\ UNCHANGED <<lastValidTimestamp, files, activeFileId, processedEntries,
                   visibleEntries, useWebWorker, runs, filterStats,
                   storedFiles, chart, loadingFiles>>

\* an exception raised inside the try block while a delivered read is
\* processed (a RangeError of push(...chunkLines), an allocation failure):
\* the catch block replaces lines by the error line
ReadThrows(l) == ReadFinished(l, <<ErrorLine(l.name)>>)

\* texts of at most MaxChars characters over a letter, the newline and the
\* two-byte character
Texts == UNION {[1..n -> {Ch("a"), Newline, TwoByteChar}] : n \in 1..MaxChars}

\* a text of n single-byte characters with a newline at every k-th position
\* and a letter that depends on the position elsewhere
SampleText(n, k) ==
    [i \in 1..n |-> IF i % k = 0 THEN Newline ELSE Ch(LowerCase[(i % 26) + 1])]

SampleTexts ==
    {SampleText(n, k) : n \in (VeryLargeFileSize + 1)..
                               (VeryLargeFileSize + MaxSampleExtra),
                        k \in {2, 5}}

ReadCatalog ==
    {[name |-> "t", bytes |-> Encode(text)] : text \in Texts \cup SampleTexts}

InitRead ==
    /\ lastValidTimestamp = Sentinel
    /\ files = <<>>
    /\ activeFileId = 0
    /\ processedEntries = <<>>
    /\ visibleEntries = <<>>
    /\ useWebWorker = FALSE
    /\ runs = {}
    /\ loads = {}
    /\ loadingFiles = LoadingInit
    /\ filterStats = <<>>
    /\ chart = ChartInit
    /\ storedFiles = {}

NextRead ==
    \/ \E file \in ReadCatalog : files = <<>> /\ processFilesRead(file)
    \/ \E l \in loads : FileLoaded(l)
    \/ \E l \in loads : ChunkLoaded(l)
    \/ \E l \in loads : SampleLoaded(l)
    \/ \E l \in loads : ReadFailed(l)
    \/ \E l \in loads : ReadThrows(l)
    \/ \E id \in loadingFiles.timeouts : removeLoadingIndicator(id)

SpecRead == InitRead /\ [][NextRead]_vars

\* the event loop delivers the load event or the error event of every
\* pending read
SpecReadFair ==
    /\ SpecRead
    /\ WF_vars(\E l \in loads : \/ ReadFailed(l) \/ FileLoaded(l)
                                \/ ChunkLoaded(l) \/ SampleLoaded(l))

-----------------------------------------------------------------------------
(* Properties of reading under SpecRead and SpecReadFair.                  *)

\* the file of the given id is shown as loading / has been replaced by its
\* processed file (with its lines, or with the error line)
Loading(id) == \E i \in 1..Len(files) : files[i].id = id /\ files[i].isLoading
Terminated(id) ==
    \E i \in 1..Len(files) : files[i].id = id /\ ~files[i].isLoading

\* C12: every started ingestion eventually terminates: whether its reads
\* deliver their content or fail, a file that is loading eventually leaves
\* the loading state (complete, or failed with the error line).
C12_IngestionTerminates ==
    \A id \in 1..(MaxFiles + 1) : Loading(id) ~> Terminated(id)

\* the lines of the file of the given id after a step
ContentAfter(id) ==
    ActiveOf(files', id)[1].content

\* C13: when the processing of a file fails, the lines produced before the
\* failure are kept: the file's line list is those lines followed by exactly
\* one error line.
C13_PartialContentKept ==
    [][\A l \in loads :
          ReadThrows(l) =>
              ContentAfter(l.id) = l.processedLines \o <<ErrorLine(l.name)>>]_vars

\* the load record of the given id after a step, as a sequence of 0 or 1
LoadAfter(id) ==
    IF \E l2 \in loads' : l2.id = id
    THEN <<CHOOSE l2 \in loads' : l2.id = id>>
    ELSE <<>>

\* the text of the first n bytes of a file, split on the newline once
WholeSplit(bytes, n) == split(readAsText(slice(bytes, 0, n)))

\* C14: chunked reading reassembles the lines across chunk boundaries: after
\* every delivered chunk the lines read so far are the lines of the text
\* read so far split on the newline once, and a file read completely with
\* no more lines than the cap has exactly the lines of its whole text.
C14_ChunkedEqualsWholeSplit ==
    [][\A l \in loads :
          ChunkLoaded(l) =>
              IF LoadAfter(l.id) # <<>>
              THEN LoadAfter(l.id)[1].processedLines =
                       WholeSplit(l.bytes, (l.loadedChunks + 1) * ChunkSize)
              ELSE Len(WholeSplit(l.bytes, Len(l.bytes))) <= LineCap =>
                       ContentAfter(l.id) = WholeSplit(l.bytes, Len(l.bytes))]_vars

\* the chunk numbers a sampled read of a file of the given number of chunks
\* takes: four from the start, three from the middle, three from the end
StartMiddleEnd(total) ==
    <<0, 1, 2, 3, total \div 2, (total \div 2) + 1, (total \div 2) + 2,
      total - 3, total - 2, total - 1>>

\* the lines of the first n chunks of StartMiddleEnd, each chunk split on
\* its own
RECURSIVE SampledLinesOf(_, _)
SampledLinesOf(bytes, n) ==
    IF n = 0 THEN <<>>
    ELSE SampledLinesOf(bytes, n - 1) \o
         split(readAsText(slice(bytes,
             StartMiddleEnd(totalChunks(Len(bytes)))[n] * VeryLargeChunkSize,
             (StartMiddleEnd(totalChunks(Len(bytes)))[n] + 1)
                 * VeryLargeChunkSize)))

IsNotice(line) == Len(line) = 1 /\ line[1].fmt = "notice"

Assembled(l) ==
    IF isVeryLargeFile(Len(l.bytes))
    THEN <<NoticeLine(Len(l.bytes))>> \o sampleAppended(l)
    ELSE IF isLargeFile(Len(l.bytes)) THEN chunkedAppended(l)
         ELSE split(readAsText(l.bytes))

\* the cap of a file: the lower one for a sampled file
CapOf(l) == IF isVeryLargeFile(Len(l.bytes)) THEN VeryLargeLineCap ELSE LineCap

\* the lines at indexes 0, N, 2N, ... (0-based) with N = ceil(total / cap)
KeptLines(lines, cap) ==
    LET N == (Len(lines) + cap - 1) \div cap
        kept == {j \in 0..(Len(lines) - 1) : j % N = 0}
    IN  [k \in 1..Cardinality(kept) |-> lines[(k - 1) * N + 1]]

\* C16: whichever way a file was read (whole, chunked or sampled), when its
\* assembled line count exceeds the cap the retained lines are exactly those
\* at indexes 0, N, 2N, ... with N = ceil(total / cap), and they are no more
\* than the cap.
C16_DownsamplingBounds ==
    [][\A l \in loads :
          (/\ FileLoaded(l) \/ ChunkLoaded(l) \/ SampleLoaded(l)
           /\ LoadAfter(l.id) = <<>>
           /\ Len(Assembled(l)) > CapOf(l))
          => /\ ContentAfter(l.id) = KeptLines(Assembled(l), CapOf(l))
             /\ Len(ContentAfter(l.id)) <= CapOf(l)]_vars


-----------------------------------------------------------------------------
(* SpecChart: a stored file with a bucket width is opened; the time range, *)
(* the bucket width and an exclude filter change while the frames of the   *)
(* TimeSeriesChart effect run.                                             *)

MaxInstant == 10

\* {...file, bucketSize: size, timeRange: file.timeRange}
WithBucketSize(file, size) ==
    [id |-> file.id, name |-> file.name, content |-> file.content,
     isLoading |-> file.isLoading, filters |-> file.filters,
     filterLogic |-> file.filterLogic, timeRange |-> file.timeRange,
     startDate |-> file.startDate, endDate |-> file.endDate,
     bucketSize |-> size]

\* the Select of the chart: onBucketSizeChange(value)
handleBucketSizeChange(size) ==
    /\ ActiveOf(files, activeFileId) # <<>>
    /\ SetActiveFile(WithBucketSize(ActiveFile, size))

LineInfoAt(t) ==
    <<Stamp("std", t)>> \o Str(<<" ", "I", "N", "F", "O", " ", "u", "p">>)
LineErrorAt(t) ==
    <<Stamp("std", t)>> \o Str(<<" ", "[", "E", "R", "R", "O", "R", "]">>)
LineSevere == Str(<<"S", "E", "V", "E", "R", "E", " ", "x">>)
LineFatalAt(t) ==
    <<Stamp("std", t)>> \o Str(<<" ", "[", "F", "A", "T", "A", "L", "]">>)

\* a file whose second line is older than its first and last lines, a file
\* of INFO lines over two days, a file with a continuation line that
\* starts with SEVERE, and a file with a FATAL line
ChartContents ==
    {<<LineErrorAt(MaxInstant - 1), LineInfoAt(1), LineErrorAt(MaxInstant)>>,
     <<LineInfoAt(1), LineInfoAt(2), LineInfoAt(6)>>,
     <<LineInfoAt(2), LineTrace, LineSevere>>,
     <<LineInfoAt(2), LineFatalAt(3)>>}

BucketSizes == {2, 3}

ChartRecords ==
    {WithBucketSize(StoredRecord(c, <<>>, "OR", 0, 0, EstimateRange(c)), w) :
        c \in ChartContents, w \in BucketSizes}

\* no range, a range around the first instants, a range no line is in
ChartRanges ==
    {NoTimeRange, [startDate |-> 1, endDate |-> 2],
     [startDate |-> 4, endDate |-> 5]}

InitChart ==
    /\ lastValidTimestamp = Sentinel
    /\ files = <<>>
    /\ activeFileId = 0
    /\ processedEntries = <<>>
    /\ visibleEntries = <<>>
    /\ useWebWorker = FALSE
    /\ runs = {}
    /\ loads = {}
    /\ loadingFiles = LoadingInit
    /\ filterStats = <<>>
    /\ chart = ChartInit
    /\ storedFiles \in {{rec} : rec \in ChartRecords}

NextChart ==
    \/ \E rec \in storedFiles : files = <<>> /\ handleRecentFileSelect(rec)
    \/ \E tr \in ChartRanges : handleTimeRangeSelect(tr.startDate, tr.endDate)
    \/ \E w \in BucketSizes : handleBucketSizeChange(w)
    \/ handleAddFilter(TermInfo, "exclude", FALSE)
    \/ handleClearFilters
    \/ ChartEffect

SpecChart == InitChart /\ [][NextChart]_vars


-----------------------------------------------------------------------------
(* Properties of the chart aggregation under SpecChart.                    *)

\* what the next frame of the chart works on
FrameSelected == ChartSelected(ActiveFile, chart.selectedRange)
FrameLines == ChartLines(ActiveFile, visibleEntries)
FrameScan == ChartScan(FrameLines, lastValidTimestamp, <<>>)
FrameWidth == bucketSizeOf(ActiveFile)
FrameDates(data) == {data[i].date : i \in 1..Len(data)}
FrameRange ==
    OrderedRange(ChartTimeRange(FrameSelected, ActiveFile,
                                FrameDates(FrameScan.data)))
FrameUsed == dataToUse(FrameSelected, FrameRange, FrameScan.data)

\* the frame gets as far as the buckets
FrameAggregates ==
    /\ FrameLines # <<>>
    /\ ~FrameScan.thrown
    /\ FrameScan.data # <<>>

\* the bucket starts are multiples of w, every used entry lies in a bucket,
\* and a count is the number of used entries of the level in [k, k + w)
AlignedCounts(buckets, used, w) ==
    /\ \A k \in DOMAIN buckets : k % w = 0
    /\ \A i \in 1..Len(used) :
          \E k \in DOMAIN buckets : k <= used[i].date /\ used[i].date < k + w
    /\ \A k \in DOMAIN buckets : \A lv \in ChartLevels :
          buckets[k][lv] =
              Cardinality({i \in 1..Len(used) :
                              /\ used[i].level = lv
                              /\ k <= used[i].date
                              /\ used[i].date < k + w})

\* C17: every frame that aggregates leaves only bucket starts that are
\* integer multiples of the bucket width, and the count of a bucket and a
\* level is the number of aggregated entries of that level whose timestamp t
\* has floor(t / width) * width equal to the bucket start, that is
\* start <= t < start + width.
C17_EpochAligned ==
    [][ChartEffect /\ FrameAggregates =>
          AlignedCounts(chart'.buckets, FrameUsed, FrameWidth)]_vars

\* a frame has counted two INFO entries in one bucket and left an empty bucket
C17_Witness ==
    /\ \E k \in DOMAIN chart.buckets : chart.buckets[k]["INFO"] = 2
    /\ \E k \in DOMAIN chart.buckets : \A lv \in ChartLevels : chart.buckets[k][lv] = 0


\* every multiple of w from floor((start - w) / w) * w to end + w is a bucket
CoversRange(buckets, r, w) ==
    \A m \in (((r.startTime - w) \div w) * w)..(r.endTime + w) :
        m % w = 0 => m \in DOMAIN buckets

\* consecutive bucket starts differ by exactly w
Contiguous(buckets, w) ==
    \A k \in DOMAIN buckets :
        \/ k - w \in DOMAIN buckets
        \/ \A o \in DOMAIN buckets : k <= o

\* C18: after every frame that aggregates, each multiple of the width
\* between floor((range.start - w) / w) * w and range.end + w is a bucket of
\* the output, and consecutive bucket starts of the output differ by
\* exactly the width.
C18_NoGaps ==
    [][ChartEffect /\ FrameAggregates =>
          /\ CoversRange(chart'.buckets, FrameRange, FrameWidth)
          /\ Contiguous(chart'.buckets, FrameWidth)]_vars


\* the range of a frame when it does not come from the data
FixedRange(file, selectedRange) ==
    OrderedRange(ChartTimeRange(selectedRange, file, {}))

\* two aggregations that both reach the buckets leave the same bucket starts
SameEdges(selectedRange, r, one, other, w) ==
    (~one.thrown /\ one.data # <<>> /\ ~other.thrown /\ other.data # <<>>) =>
        DOMAIN BucketsOver(selectedRange, r, one.data, w) =
        DOMAIN BucketsOver(selectedRange, r, other.data, w)

\* C19: for the width and the range of the active file (the selected range,
\* else the range of the file dates), the aggregation over the visible
\* entries and the aggregation over all entries of the file have the same
\* set of bucket starts: the entries decide the counts only.
C19_EdgeStability ==
    (/\ ActiveOf(files, activeFileId) # <<>>
     /\ visibleEntries # <<>>
     /\ \/ useSelectedRange(FrameSelected)
        \/ ActiveFile.startDate # 0 /\ ActiveFile.endDate # 0) =>
        SameEdges(FrameSelected, FixedRange(ActiveFile, FrameSelected),
                  FrameScan,
                  ChartScan(ActiveFile.content, lastValidTimestamp, <<>>),
                  FrameWidth)


\* the buckets span the padded range and every count is zero
ZeroBuckets(buckets, r, w) ==
    /\ CoversRange(buckets, r, w)
    /\ \A k \in DOMAIN buckets : \A lv \in ChartLevels : buckets[k][lv] = 0

\* C20: a frame that aggregates with a selected sub-range while no entry
\* of the active file is visible leaves the buckets that span the
\* sub-range, all with zero counts.
C20_EmptySubRangeZeroBuckets ==
    [][(/\ ChartEffect
        /\ FrameAggregates
        /\ useSelectedRange(FrameSelected)
        /\ visibleEntries = <<>>) =>
          ZeroBuckets(chart'.buckets, FixedRange(ActiveFile, FrameSelected),
                      FrameWidth)]_vars


-----------------------------------------------------------------------------
(* SpecWidth: files of two stamped lines a given span apart are dropped    *)
(* and ingested, the chart draws them, and a range of the chart is         *)
(* selected with the mouse.                                                *)

\* calculateOptimalBucketSize(startDate, endDate), bucketSize being the prop
calculateOptimalBucketSize(startDate, endDate, bucketSize) ==
    IF startDate = 0 \/ endDate = 0 THEN bucketSize
    ELSE IF endDate - startDate <= 60 * 60 THEN 30
    ELSE standardBucketSize(idealBucketSizeMinutes(endDate - startDate))

\* originalLabels[index]: the sorted bucket keys of the last frame
LabelAt(index) ==
    CHOOSE k \in DOMAIN chart.buckets :
        Cardinality({o \in DOMAIN chart.buckets : o < k}) = index

\* onBucketSizeChange(optimal) when optimal !== bucketSize
WithOptimalBucketSize(file, optimal) ==
    IF optimal # bucketSizeOf(file) THEN WithBucketSize(file, optimal) ELSE file

\* handleMouseUp with selectionStart / selectionEnd already ordered:
\* setSelectedRange, onTimeRangeSelect, onBucketSizeChange
handleMouseUp(startIndex, endIndex) ==
    /\ ActiveOf(files, activeFileId) # <<>>
    /\ 0 <= startIndex /\ startIndex < endIndex
    /\ endIndex < Cardinality(DOMAIN chart.buckets)
    /\ chart' = [chart EXCEPT !.selectedRange =
                    [startDate |-> LabelAt(startIndex),
                     endDate |-> LabelAt(endIndex)]]
    /\ Commit(ReplaceFile(files,
                  WithOptimalBucketSize(
                      [ActiveFile EXCEPT !.timeRange =
                          [startDate |-> LabelAt(startIndex),
                           endDate |-> LabelAt(endIndex)]],
                      calculateOptimalBucketSize(LabelAt(startIndex),
                          LabelAt(endIndex), bucketSizeOf(ActiveFile)))),
              activeFileId, TRUE, lastValidTimestamp)
    /\ UNCHANGED <<useWebWorker, loads, loadingFiles, storedFiles>>

\* the instant of the first line, in seconds
FirstInstant == 2000000

MaxLabel == 3

\* spans in seconds at both sides of every threshold of the selection
WidthSpans ==
    {0, 60, 61, 45 * 60, 3600, 3601, 7200, 7201, 3 * 3600,
     5 * 7200, 5 * 7200 + 1, 10 * 7200, 10 * 7200 + 1,
     30 * 7200, 30 * 7200 + 1, 60 * 7200, 60 * 7200 + 1,
     360 * 7200, 360 * 7200 + 1, 720 * 7200, 720 * 7200 + 1,
     1440 * 7200, 1440 * 7200 + 1}

WidthCatalog ==
    {[name |-> "w",
      lines |-> <<LineInfoAt(FirstInstant), LineInfoAt(FirstInstant + span)>>] :
        span \in WidthSpans}

InitWidth ==
    /\ lastValidTimestamp = Sentinel
    /\ files = <<>>
    /\ activeFileId = 0
    /\ processedEntries = <<>>
    /\ visibleEntries = <<>>
    /\ useWebWorker = FALSE
    /\ runs = {}
    /\ loads = {}
    /\ loadingFiles = LoadingInit
    /\ filterStats = <<>>
    /\ chart = ChartInit
    /\ storedFiles = {}

NextWidth ==
    \/ \E file \in WidthCatalog : files = <<>> /\ processFilesStart(file)
    \/ \E l \in loads : processFilesFinish(l)
    \/ \E id \in loadingFiles.timeouts : removeLoadingIndicator(id)
    \/ ChartEffect
    \/ \E i \in 0..1, j \in {1, MaxLabel - 1, Cardinality(DOMAIN chart.buckets) - 1} :
          chart.selectedRange = NoTimeRange /\ handleMouseUp(i, j)

SpecWidth == InitWidth /\ [][NextWidth]_vars

\* the width the rule gives for a span in seconds
LadderMinutes == {1, 5, 10, 30, 60, 360, 720, 1440, 10080}
RuleWidth(span) ==
    IF span <= 60 THEN 5
    ELSE IF span <= 3600 THEN 30
    ELSE IF \E v \in LadderMinutes : v * 7200 >= span
         THEN 60 * Min({v \in LadderMinutes : v * 7200 >= span})
         ELSE 60 * 10080

\* the bucket width the chart gets for a file
WidthOf(fs, id) == bucketSizeOf(ActiveOf(fs, id)[1])

\* C21: the file an ingestion produces has the width the rule gives for
\* the span of its dates (5s up to a minute, 30s up to an hour, else the
\* smallest ladder value >= ceil(spanMinutes / 120)), and after a range of
\* the chart is selected the active file has the width the rule gives for
\* the span of the selection.
C21_AdaptiveWidth ==
    [][/\ \A l \in loads : processFilesFinish(l) =>
              WidthOf(files', l.id) =
                  RuleWidth(EstimateRange(l.lines).endDate
                            - EstimateRange(l.lines).startDate)
       /\ \A i \in 0..1, j \in 1..(Cardinality(DOMAIN chart.buckets) - 1) :
              handleMouseUp(i, j) =>
                  WidthOf(files', activeFileId') =
                      RuleWidth(LabelAt(j) - LabelAt(i))]_vars


-----------------------------------------------------------------------------
(* Properties of the date estimation under SpecParse.                      *)

\* the instant of the timestamp line i carries by itself, 0 when it has none
OwnInstant(content, i) == parseTimestamp(DetectedTimestamp(content[i]))

StampedLines(content) == {i \in 1..Len(content) : OwnInstant(content, i) # 0}

\* the timestamps of the file do not decrease, its first line has one, and
\* so has one of its last k lines
OrderedAndStamped(content, k) ==
    /\ \A i, j \in StampedLines(content) :
          i <= j => OwnInstant(content, i) <= OwnInstant(content, j)
    /\ 1 \in StampedLines(content)
    /\ \E i \in StampedLines(content) : i > Len(content) - k

EstimatedFromLines(file, k) ==
    /\ (file.startDate # 0 /\ file.endDate # 0) => file.startDate <= file.endDate
    /\ \A d \in {file.startDate, file.endDate} :
          d = 0 \/ \E i \in StampedLines(file.content) : d = OwnInstant(file.content, i)
    /\ OrderedAndStamped(file.content, k) =>
          /\ file.startDate = OwnInstant(file.content, 1)
          /\ file.endDate =
                OwnInstant(file.content, Max(StampedLines(file.content)))

\* C22: the dates of an ingested file satisfy start <= end, both are
\* timestamps of lines of the file, and when the timestamps do not decrease
\* and the first line and one of the last K lines have a timestamp, start is
\* that of the first line and end that of the last line that has one.
C22_RangeFromProbedLines ==
    \A i \in 1..Len(files) :
        ~files[i].isLoading =>
            EstimatedFromLines(files[i],
                Min({MaxLinesToCheck, Len(files[i].content)}))


\* C23: in every state of the ingestion of the active file, an entry whose
\* line has no timestamp of its own and that carries a timestamp carries one
\* that is not older than the first timestamp parsed in the run, the
\* timestamp of the first stamped line of the file.
C23_CarriedNotOlderThanFirst ==
    \A i \in 1..Len(files) :
        (files[i].id = activeFileId /\ ~files[i].isLoading) =>
            \A e \in 1..Len(processedEntries) :
                (/\ DetectedTimestamp(processedEntries[e].message) = Sentinel
                 /\ parseTimestamp(processedEntries[e].timestamp) # 0) =>
                    /\ StampedLines(files[i].content) # {}
                    /\ parseTimestamp(processedEntries[e].timestamp) >=
                          OwnInstant(files[i].content,
                                     Min(StampedLines(files[i].content)))


\* C24: in every state, each line the next frame of the chart processes is
\* counted by the chart under the level the level statistics give the same
\* message, and the level extraction of the chart does not fail on it.
C24_TalliesUseClassifier ==
    ActiveOf(files, activeFileId) # <<>> =>
        \A i \in 1..Len(FrameLines) :
            FrameLines[i] # Undefined =>
                chartLevel(FrameLines[i]) = statsLevel(FrameLines[i])


-----------------------------------------------------------------------------
(* Worker parsing against parseLogLine.                                    *)

\* the entries the small-file path (lines 216-223) gives the whole content
\* after the reset idiom of lines 78-79
WholeParse(content) == ParseBatch(content, 0, ResetTimestamp).entries

\* the entries of WholeParse for the lines of the batch starting at index
BatchOfWhole(content, index) ==
    SubSeq(WholeParse(content), index + 1,
           IF index + WorkerBatchSize < Len(content)
           THEN index + WorkerBatchSize ELSE Len(content))

\* C25: every reply of the background worker appends, for the lines of its
\* batch, exactly the entries parseLogLine gives those lines when the whole
\* content is parsed in one run: same line numbers, messages and timestamps,
\* the carried timestamp included.
C25_WorkerAgreesWithParseLogLine ==
    [][\A r \in runs :
          WorkerReply(r) =>
              processedEntries' =
                  processedEntries \o BatchOfWhole(r.content, r.currentIndex)]_vars


-----------------------------------------------------------------------------
(* The chunk indexes of the sampling loop.                                 *)

-----------------------------------------------------------------------------
(* Conservation of the bucket counts.                                      *)

RECURSIVE SumOf(_, _)
SumOf(f, S) ==
    IF S = {} THEN 0
    ELSE LET x == CHOOSE y \in S : TRUE
         IN  f[x] + SumOf(f, S \ {x})

\* the sum of the counts over all buckets and all levels
TotalCount(buckets) ==
    SumOf([k \in DOMAIN buckets |-> SumOf(buckets[k], ChartLevels)],
          DOMAIN buckets)

\* the dated entries of the frame, those within the range when a sub-range
\* is selected
CountedEntries(selected, r, data) ==
    {i \in 1..Len(data) :
        useSelectedRange(selected) =>
            r.startTime <= data[i].date /\ data[i].date <= r.endTime}

Conserved(buckets, selected, r, data) ==
    TotalCount(buckets) = Cardinality(CountedEntries(selected, r, data))

\* C27: after a frame of the chart that aggregates, the sum of the counts
\* over all buckets and levels is the number of processed entries that have
\* a parseable timestamp, restricted to those within the selected range when
\* a sub-range is selected: none is dropped, none is counted twice.
C27_CountsConserved ==
    [][ChartEffect /\ FrameAggregates =>
          Conserved(chart'.buckets, FrameSelected, FrameRange, FrameScan.data)]_vars

\* the buckets hold the counts of a frame over a selected sub-range that
\* left some dated entry out, and of more than one bucket
C27_Witness ==
    /\ ActiveOf(files, activeFileId) # <<>>
    /\ useSelectedRange(chart.selectedRange)
    /\ FrameAggregates
    /\ chart.selectedRange = FrameSelected
    /\ TotalCount(chart.buckets) > 0
    /\ TotalCount(chart.buckets) < Len(FrameScan.data)
    /\ Conserved(chart.buckets, FrameSelected, FrameRange, FrameScan.data)


-----------------------------------------------------------------------------
(* SpecProgress: a chunked and a sampled file are read at the same time    *)
(* (two invocations of processFiles whose reads interleave).               *)

ProgressCatalog ==
    {[name |-> "c", bytes |-> Encode(SampleText(LargeFileSize + 3, 3))],
     [name |-> "s", bytes |-> Encode(SampleText(VeryLargeFileSize + 1, 5))]}

InitProgress ==
    /\ lastValidTimestamp = Sentinel
    /\ files = <<>>
    /\ activeFileId = 0
    /\ processedEntries = <<>>
    /\ visibleEntries = <<>>
    /\ useWebWorker = FALSE
    /\ runs = {}
    /\ loads = {}
    /\ loadingFiles = LoadingInit
    /\ filterStats = <<>>
    /\ chart = ChartInit
    /\ storedFiles = {}

NextProgress ==
    \/ \E file \in ProgressCatalog : processFilesReadAmong(file, MaxLoads + 1)
    \/ \E l \in loads : ChunkLoaded(l)
    \/ \E l \in loads : SampleLoaded(l)
    \/ \E l \in loads : ReadFailed(l)
    \/ \E l \in loads : ReadThrows(l)
    \/ \E id \in loadingFiles.timeouts : removeLoadingIndicator(id)

SpecProgress == InitProgress /\ [][NextProgress]_vars

\* the number of chunks the loop of a pending read reads in all
ChunksRead(l) ==
    IF isVeryLargeFile(Len(l.bytes))
    THEN Min({MaxChunksToProcess,
              (Len(l.bytes) + VeryLargeChunkSize - 1) \div VeryLargeChunkSize})
    ELSE (Len(l.bytes) + ChunkSize - 1) \div ChunkSize

\* no recorded percentage decreases
NeverDecreases(before, after) ==
    \A id \in DOMAIN before \cap DOMAIN after : after[id] >= before[id]

\* after a chunk of the read l: the percentage of l is the rounded share of
\* the chunks read so far (100 for the last chunk), within 0..100, and the
\* percentage of every other file is as before
ProgressEmitted(l, before, after) ==
    /\ DOMAIN after = DOMAIN before
    /\ after[l.id] \in 0..100
    /\ 2 * (after[l.id] * ChunksRead(l) - 100 * (l.loadedChunks + 1))
           \in (0 - ChunksRead(l))..ChunksRead(l)
    /\ l.loadedChunks + 1 = ChunksRead(l) => after[l.id] = 100
    /\ \A id \in DOMAIN before \ {l.id} : after[id] = before[id]

\* C28: in the chunked and the sampling path the percentage recorded for a
\* file is updated after each chunk to the rounded share of the chunks read,
\* stays within 0..100, never decreases, is 100 once the last chunk has been
\* read, and the update leaves the percentage of every other file as it was.
C28_ProgressMonotonePerFile ==
    [][/\ NeverDecreases(loadingFiles.state, loadingFiles'.state)
       /\ \A l \in loads :
             (ChunkLoaded(l) \/ SampleLoaded(l)) =>
                 ProgressEmitted(l, loadingFiles.state, loadingFiles'.state)]_vars

\* two files are being read at the same time and each has a percentage
\* strictly between 0 and 100
C28_Witness ==
    \E l1 \in loads, l2 \in loads :
        /\ l1.id # l2.id
        /\ isVeryLargeFile(Len(l1.bytes)) /\ ~isVeryLargeFile(Len(l2.bytes))
        /\ loadingFiles.state[l1.id] \in 1..99
        /\ loadingFiles.state[l2.id] \in 1..99


-----------------------------------------------------------------------------
(* SpecTabs: two stored files are opened, the tabs are switched and closed, *)
(* and filters are added to, removed from and cleared on the active file.   *)

TabRecords ==
    {StoredRecord(<<LineInfo, LineTrace>>, <<>>, "OR", 0, 0,
                  EstimateRange(<<LineInfo, LineTrace>>)),
     [StoredRecord(<<LineInfos, LineInfo>>, <<>>, "AND", 0, 0,
                   EstimateRange(<<LineInfos, LineInfo>>))
         EXCEPT !.id = 8, !.name = "q", !.filters = StoredFilters]}

TabFilterIds == (1..MaxFilters) \cup {StoredIdInfo, StoredIdPattern}

InitTabs ==
    /\ lastValidTimestamp = Sentinel
    /\ files = <<>>
    /\ activeFileId = 0
    /\ processedEntries = <<>>
    /\ visibleEntries = <<>>
    /\ useWebWorker = FALSE
    /\ runs = {}
    /\ loads = {}
    /\ loadingFiles = LoadingInit
    /\ filterStats = <<>>
    /\ chart = ChartInit
    /\ storedFiles = TabRecords

NextTabs ==
    \/ \E rec \in storedFiles :
          rec.id \notin FileIds(files) /\ handleRecentFileSelect(rec)
    \/ \E id \in FileIds(files) : SelectTab(id)
    \/ \E id \in FileIds(files) : handleRemoveFile(id)
    \/ handleAddFilter(TermInfo, "exclude", FALSE)
    \/ \E id \in TabFilterIds : handleRemoveFilter(id)
    \/ handleClearFilters

SpecTabs == InitTabs /\ [][NextTabs]_vars

\* the same files in the same order, every file but the active one as it
\* was, and the active file as it was but for its filter list
ConfinedToActive(before, after, active, filters) ==
    /\ Len(after) = Len(before)
    /\ \A i \in 1..Len(before) :
          after[i] = IF before[i].id = active
                     THEN [before[i] EXCEPT !.filters = filters]
                     ELSE before[i]

\* old with one filter of the given term, type and flag, and of an id no
\* filter of old has, at the end
AppendedFresh(old, new, term, type, isRegex) ==
    /\ Len(new) = Len(old) + 1
    /\ SubSeq(new, 1, Len(old)) = old
    /\ new[Len(new)].term = term
    /\ new[Len(new)].type = type
    /\ new[Len(new)].isRegex = isRegex
    /\ \A i \in 1..Len(old) : old[i].id # new[Len(new)].id

\* old without its filter of the given id, the others in their order
RemovedOne(old, new, id) ==
    IF \E k \in 1..Len(old) : old[k].id = id
    THEN \E k \in 1..Len(old) :
            /\ old[k].id = id
            /\ new = SubSeq(old, 1, k - 1) \o SubSeq(old, k + 1, Len(old))
    ELSE new = old

\* C29: adding a filter appends one filter with a fresh id to the filter
\* list of the active file, removing a filter deletes the filter of the
\* given id and keeps the order of the rest, clearing empties the list; each
\* leaves the other open files, and everything of the active file but its
\* filter list, as they were, and none changes anything without an active
\* file.
C29_FilterEditsConfinedToActiveFile ==
    [][/\ handleAddFilter(TermInfo, "exclude", FALSE) =>
             /\ ConfinedToActive(files, files', activeFileId, FiltersAfter)
             /\ AppendedFresh(ActiveFile.filters, FiltersAfter,
                              TermInfo, "exclude", FALSE)
       /\ \A id \in TabFilterIds :
             handleRemoveFilter(id) =>
                 /\ ConfinedToActive(files, files', activeFileId, FiltersAfter)
                 /\ RemovedOne(ActiveFile.filters, FiltersAfter, id)
       /\ handleClearFilters =>
             /\ ConfinedToActive(files, files', activeFileId, FiltersAfter)
             /\ FiltersAfter = <<>>
       /\ ActiveOf(files, activeFileId) = <<>> =>
             /\ ~handleAddFilter(TermInfo, "exclude", FALSE)
             /\ \A id \in TabFilterIds : ~handleRemoveFilter(id)
             /\ ~handleClearFilters]_vars

\* two files are open; the active one has been given a filter, the other
\* one still has its stored filters and combinator
C29_Witness ==
    /\ Len(files) = 2
    /\ \E i \in 1..2 :
          /\ files[i].id = activeFileId
          /\ Len(files[i].filters) = 1
          /\ files[i].filters[1].term = TermInfo
          /\ files[3 - i].id = 8
          /\ files[3 - i].filters = StoredFilters
          /\ files[3 - i].filterLogic = "AND"


-----------------------------------------------------------------------------
(* The time range of the filter effect under SpecView.                     *)

\* the entry has no instant, or its instant is not before a start that is
\* set and not after an end that is set
InWindow(entry, timeRange) ==
    \/ parseTimestamp(entry.timestamp) = 0
    \/ /\ timeRange.startDate # 0 =>
              timeRange.startDate <= parseTimestamp(entry.timestamp)
       /\ timeRange.endDate # 0 =>
              parseTimestamp(entry.timestamp) <= timeRange.endDate

\* C30: in every state, an entry of the active file is visible exactly when
\* the time range lets it through and the text filters pass it; the time
\* range lets through every entry whose timestamp is the placeholder or does
\* not parse, and an entry with an instant when start <= instant <= end,
\* where a bound that is not set does not constrain.
C30_TimeRangeInclusive ==
    \A i \in 1..Len(files) : \A k \in 1..Len(processedEntries) :
        files[i].id = activeFileId =>
            (Shown(processedEntries[k]) <=>
                /\ InWindow(processedEntries[k], files[i].timeRange)
                /\ TextFiltersPass(processedEntries[k], files[i]))

\* a range with both bounds set: an entry at the start bound and an entry
\* with the placeholder timestamp are shown, an entry after the end is not
C30_Witness ==
    \E i \in 1..Len(files) : \E k, m, n \in 1..Len(processedEntries) :
        /\ files[i].id = activeFileId
        /\ files[i].timeRange.startDate # 0
        /\ files[i].timeRange.endDate # 0
        /\ parseTimestamp(processedEntries[k].timestamp)
               = files[i].timeRange.startDate
        /\ Shown(processedEntries[k])
        /\ parseTimestamp(processedEntries[m].timestamp)
               > files[i].timeRange.endDate
        /\ ~Shown(processedEntries[m])
        /\ processedEntries[n].timestamp = Sentinel
        /\ Shown(processedEntries[n])

=============================================================================
